---- MODULE Spec2Model ----
(***************************************************************************)
(* Model of the VulnGraph plan scheduler (src/src/graph/nodes.py):         *)
(* WorkerTeamNode, PlanRefineNode, the three executor wrapper nodes,       *)
(* TriageNode and ReporterNode, run by a barrier-synchronised superstep    *)
(* engine.  A node reads the run state as of the last barrier together     *)
(* with the payload of the Send that started it, and returns a partial     *)
(* update plus a routing outcome; the engine applies the updates and       *)
(* computes the next active set when every active node has returned.       *)
(* Spec follows a run from the approval of its plan, CapSpec follows it to *)
(* recursion_limit, RunSpec follows it from its start through              *)
(* CoordinatorNode, PlannerNode and UserFeedbackNode with its suspension   *)
(* and the two front ends that deliver a decision, and MergeSpec applies   *)
(* the step_results reducer to maps and updates of its own.  LoopSpec      *)
(* follows the tool loop of the executor subgraphs inside a run of one     *)
(* step, LoopCapSpec follows that loop to the limit of its engine, and     *)
(* AppSpec is RunSpec with the calls a front end starts while another call *)
(* for the run is executing.  ResumeSpec is RunSpec with resume values     *)
(* that carry no approval field, RefineSpec is Spec over plans whose ids   *)
(* are spelled like the ids PlanRefineNode builds, and GraphSpec follows   *)
(* the get_graph calls of builder.py made in one process.                  *)
(***************************************************************************)
EXTENDS Integers, Sequences, FiniteSets, TLC

\* ------------------------------------------------------------------ bounds
\* Largest stage number the planner assigns.
MaxStage == 1
\* Largest number of CVE ids in one discovery result.
MaxCves == 2
\* Number of supersteps a run is followed for.
MaxSupersteps == 6

\* --------------------------------------------------------------- constants
\* recursion_limit of the graph invocation.
RecursionLimit == 100
\* settings.max_plan_iterations
max_plan_iterations == 3

\* ------------------------------------------------------------------ values
NoStep == <<"none">>
NoTarget == "none"

\* step_type values: the four keys of STEP_CONFIG, and "vuln_analysis", the
\* step type of the earlier graph wiring, which STEP_CONFIG does not list.
StepTypes == {"asset_analysis", "vuln_detail", "vuln_discovery", "reporting", "vuln_analysis"}

CveIds == {"X", "Y"}

\* The ids the planner gives the steps of a plan, by position; a plan has
\* at most Len(PlannerIds) steps.
PlannerIds == <<"A", "B", "C">>

\* Step ids are tuples, so that the ids PlanRefineNode builds from a
\* discovery step id and an index are values of the same kind.  PlanId(i)
\* for i beyond the plan is an id no step has.
PlanId(i) == IF i \in 1..Len(PlannerIds) THEN <<PlannerIds[i]>> ELSE <<"Z">>

\* f"detail-{step.id}-{i}"
DetailId(step_id, i) == <<"detail", step_id, i>>

\* STEP_CONFIG.get(step.step_type, {"parallel": False})["parallel"]
STEP_CONFIG(step_type) ==
    CASE step_type = "asset_analysis" -> TRUE
      [] step_type = "vuln_detail" -> TRUE
      [] step_type = "vuln_discovery" -> FALSE
      [] step_type = "reporting" -> FALSE
      [] OTHER -> FALSE

_node_for_step_type(step_type) ==
    CASE step_type = "asset_analysis" -> "AssetsAnalzerNode"
      [] step_type = "vuln_discovery" -> "VulnDiscoveryNode"
      [] step_type = "vuln_detail" -> "VulnDetailNode"
      [] step_type = "reporting" -> "ReporterNode"
      [] OTHER -> "WorkerTeamNode"

\* -------------------------------------------------------------- sequences
RECURSIVE SeqsUpTo(_, _)
SeqsUpTo(S, n) ==
    IF n = 0 THEN {<<>>}
    ELSE LET shorter == SeqsUpTo(S, n - 1)
         IN shorter \cup {Append(s, x) : s \in {t \in shorter : Len(t) = n - 1}, x \in S}

\* ----------------------------------------------------- the planner's plans
\* The dependencies the planner gives the step at position i: none, or all
\* the steps before it; the first step may depend on the second one (a
\* dependency on a later step, or on an id that is not in the plan when the
\* plan has one step).
DepChoices(i) ==
    {{}} \cup (IF i = 1 THEN {{PlanId(2)}} ELSE {{PlanId(j) : j \in 1..(i - 1)}})

StepChoices(i) ==
    {[id |-> PlanId(i), step_type |-> t, stage |-> st, depends_on |-> d,
      target |-> IF t = "vuln_detail" THEN "X" ELSE NoTarget] :
        t \in StepTypes, st \in 0..MaxStage, d \in DepChoices(i)}

RECURSIVE PlansOfLen(_)
PlansOfLen(n) ==
    IF n = 0 THEN {<<>>}
    ELSE {Append(p, s) : p \in PlansOfLen(n - 1), s \in StepChoices(n)}

\* state["plan"]: None, or a Plan with its list of steps.
NonePlan == [is_none |-> TRUE, steps |-> <<>>]
Plan(steps) == [is_none |-> FALSE, steps |-> steps]

Plans == {Plan(p) : p \in UNION {PlansOfLen(n) : n \in 1..Len(PlannerIds)}}

\* ------------------------------------------------------- executor results
AssetResult == [type |-> "asset_analysis", cve_ids |-> <<>>]
DetailResult == [type |-> "vuln_detail", cve_ids |-> <<>>]
DiscoveryResults == {[type |-> "vuln_discovery", cve_ids |-> c] : c \in SeqsUpTo(CveIds, MaxCves)}

\* ---------------------------------------------------------------- messages
\* A message: its id (0 while it has none) and the node it comes from.
Message(id, name) == [id |-> id, name |-> name]

\* A reducer that appends every message of the update, as operator.add does.
add_messages_concat(left, right) == left \o right

\* The reducer of MessagesState: a message without an id gets a fresh one; a
\* message whose id is in the list replaces that entry, any other is
\* appended.
RECURSIVE add_messages(_, _)
add_messages(left, right) ==
    IF right = <<>> THEN left
    ELSE LET m == IF Head(right).id = 0
                  THEN Message(Len(left) + 1, Head(right).name) ELSE Head(right)
             at == {k \in 1..Len(left) : left[k].id = m.id}
         IN IF at = {}
            THEN add_messages(Append(left, m), Tail(right))
            ELSE add_messages([k \in 1..Len(left) |-> IF k \in at THEN m ELSE left[k]],
                              Tail(right))

\* {"approved": bool, "comment": str}; "" is the comment left out.
Decision(approved, comment) == [approved |-> approved, comment |-> comment]
Comments == {"", "c"}
\* No decision: interrupt() has no value to return.
NoDecision == [approved |-> FALSE, comment |-> "none"]

VARIABLES
    plan,            \* state["plan"]
    step_results,    \* state["step_results"]: step id -> result
    active,          \* the node instances of the current superstep
    updates,         \* step_results updates returned in this superstep
    plan_update,     \* plan update returned in this superstep
    next_active,     \* routing outcomes returned in this superstep
    supersteps,      \* supersteps completed in this invocation of the graph
    run_status,      \* "running", "done" or "recursion_exceeded"
    last_node,       \* history: the node that returned last
    last_decision,   \* history: what WorkerTeamNode returned last
    invocations,     \* history: number of WorkerTeamNode invocations
    dispatch_count,  \* history: step id -> number of Sends emitted for it
    write_count,     \* history: step id -> number of results written for it
    messages,        \* state["messages"]
    plan_iterations, \* state["plan_iterations"]
    plan_review_status, \* state["plan_review_status"]
    field_update,    \* updates of the three fields above returned in this superstep
    resume_value,    \* the value interrupt() returns: NoDecision or a decision
    caller,          \* the run_agent_workflow_async call driving the run
    node_state,      \* the State object the last node was called with, after the call
    refine_noop,     \* history: the last node other than WorkerTeamNode was a
                     \* PlanRefineNode call that added no step
    planner_calls,   \* history: number of invocations of the planning model
    resume_entry,    \* history: the first node run since a decision was delivered
    delivered,       \* history: the decision a front end delivered last
    feedback,        \* history: the decision UserFeedbackNode got from interrupt() last
    sub_task,        \* the executor instance whose subgraph invocation is in progress
    sub_messages,    \* sub_state["messages"]: the local history of the invocation
    sub_result,      \* sub_state["result"]
    sub_pos,         \* the node of the subgraph to run next, "idle", "END" or "raised"
    sub_steps,       \* supersteps completed in the subgraph invocation
    sub_responses,   \* history: the number of tool requests of each reasoning response
    tools_executed,  \* history: number of tools executed in the invocation
    pending_plan,    \* VulnGraphApp._pending_plan is set
    overlapping,     \* run_agent_workflow_async calls for the run started while one
                     \* was executing, and not returned
    checkpoint,      \* the Checkpoint Store: thread id -> the values saved last
    compiled_graph,  \* builder.compiled_graph
    _checkpointer,   \* builder._checkpointer: the saver entered last, or NoSaver
    _saver_ctx,      \* builder._saver_ctx: the saver context made last, or NoSaver
    _setup_done,     \* builder._setup_done
    get_graph_pc,    \* caller -> where its get_graph call stands
    get_graph_ctx,   \* caller -> the saver context its __aenter__() call is on
    get_graph_got,   \* history: caller -> the graph get_graph returned to it
    savers_opened,   \* history: number of saver contexts entered
    graphs_compiled  \* history: number of g.compile calls

\* The variables of the planning and approval part of the run.
front == <<messages, plan_iterations, plan_review_status, field_update,
           resume_value, caller, planner_calls, delivered, feedback>>

\* The variables of a subgraph invocation.
sub == <<sub_task, sub_messages, sub_result, sub_pos, sub_steps, sub_responses,
         tools_executed>>

\* The variables of the front end.
\* The module state of builder.py and the get_graph calls in progress.
builder == <<compiled_graph, _checkpointer, _saver_ctx, _setup_done, get_graph_pc,
             get_graph_ctx, get_graph_got, savers_opened, graphs_compiled>>

app == <<pending_plan, overlapping, checkpoint, builder>>

vars == <<plan, step_results, active, updates, plan_update, next_active,
          supersteps, run_status, last_node, last_decision, invocations,
          dispatch_count, write_count, messages, plan_iterations,
          plan_review_status, field_update, resume_value, caller, node_state,
          refine_noop, planner_calls, resume_entry, delivered, feedback,
          sub_task, sub_messages, sub_result, sub_pos, sub_steps, sub_responses,
          tools_executed, pending_plan, overlapping, checkpoint,
          compiled_graph, _checkpointer, _saver_ctx, _setup_done, get_graph_pc,
          get_graph_ctx, get_graph_got, savers_opened, graphs_compiled>>

\* The fields of NodeState the model follows.
NodeState(p, msgs, iterations, results) ==
    [plan |-> p, messages |-> msgs, plan_iterations |-> iterations, step_results |-> results]

\* A node that leaves the State object it is given as it was.
Unmutated == node_state' = NodeState(plan, messages, plan_iterations, step_results)

\* The first node to run after a decision was delivered is recorded.
Entered(node) == resume_entry' = IF resume_entry = "awaiting" THEN node ELSE resume_entry

\* VulnGraphApp._maybe_prompt_plan, which runs when the call that drives
\* the run has returned: the plan is pending when the stored State says so.
_maybe_prompt_plan(call, review_status, pending) ==
    IF call = "returned" THEN review_status = "pending" ELSE pending

\* What the caller of run_agent_workflow_async gets when the stream ends
\* with an error logged and then swallowed.
run_agent_workflow_async_swallow(status) ==
    IF status = "running" THEN "in_call" ELSE "returned"

\* What the caller of run_agent_workflow_async gets: the exception of a
\* failed stream is raised again, an interrupt or the end of the stream
\* returns.
run_agent_workflow_async(status) ==
    CASE status = "running" -> "in_call"
      [] status \in {"recursion_exceeded", "failed"} -> "raised"
      [] OTHER -> "returned"

Task(node, step_id, idx) == [node |-> node, step_id |-> step_id, idx |-> idx]
Goto(node) == Task(node, NoStep, 0)
NoTask == Task("none", NoStep, 0)

\* "result": None
NoResult == [type |-> "none", cve_ids |-> <<>>]

\* No subgraph invocation is in progress.
SubIdle ==
    /\ sub_task = NoTask
    /\ sub_messages = <<>>
    /\ sub_result = NoResult
    /\ sub_pos = "idle"
    /\ sub_steps = 0
    /\ sub_responses = <<>>
    /\ tools_executed = 0

\* The thread ids asked for: the one of the run, and one no run has used.
RunIds == {"run", "other"}

\* The values of a thread without a checkpoint.
NoValues == <<>>

\* The fields of the stored State the model follows.
StateValues(p, msgs, iterations, review_status, results) ==
    [plan |-> p, messages |-> msgs, plan_iterations |-> iterations,
     plan_review_status |-> review_status, step_results |-> results]

\* The Checkpoint Store after the engine has saved the State of the run.
Saved(p, msgs, iterations, review_status, results) ==
    [id \in RunIds |-> IF id = "run"
                       THEN StateValues(p, msgs, iterations, review_status, results)
                       ELSE NoValues]

\* compiled_graph.aget_state(cfg): the snapshot of the thread.
aget_state(store, run_id) == [values |-> store[run_id]]

\* Absent: what a caller gets for None.
NoState == [found |-> FALSE, values |-> NoValues]

\* get_run_state, which returns nothing it has not cached.
get_run_state_async_cached(store, run_id) == NoState

\* get_run_state_async: the values of the snapshot, None when they are
\* empty.
get_run_state_async(store, run_id) ==
    LET snapshot == aget_state(store, run_id)
    IN IF DOMAIN snapshot.values # {}
       THEN [found |-> TRUE, values |-> snapshot.values]
       ELSE NoState

\* The callers of get_graph that may be in the call at once.
MaxCallers == 3
Callers == 1..MaxCallers

\* None, for a saver or a saver context.
NoSaver == 0
\* None, for compiled_graph.
NoGraph == [id |-> 0, checkpointer |-> NoSaver]

\* builder.py at import: nothing opened, nothing compiled, no call made.
BuilderIdle ==
    /\ compiled_graph = NoGraph
    /\ _checkpointer = NoSaver
    /\ _saver_ctx = NoSaver
    /\ _setup_done = FALSE
    /\ get_graph_pc = [c \in Callers |-> "idle"]
    /\ get_graph_ctx = [c \in Callers |-> NoSaver]
    /\ get_graph_got = [c \in Callers |-> NoGraph]
    /\ savers_opened = 0
    /\ graphs_compiled = 0

\* VulnGraphApp.__init__: no pending plan; no call is executing beside the
\* one that drives the run.  The engine has saved the input of the run.
AppIdle ==
    /\ pending_plan = FALSE
    /\ overlapping = 0
    /\ checkpoint = Saved(plan, messages, plan_iterations, plan_review_status,
                          step_results)
    /\ BuilderIdle

\* ---------------------------------------------------------- PlanRefineNode
\* The new step left at the stage of the discovery step.
NewDetailStep_same_stage(step, i, cve_id) ==
    [id |-> DetailId(step.id, i), step_type |-> "vuln_detail", stage |-> step.stage,
     depends_on |-> {step.id}, target |-> cve_id]

NewDetailStep(step, i, cve_id) ==
    [id |-> DetailId(step.id, i), step_type |-> "vuln_detail", stage |-> step.stage + 1,
     depends_on |-> {step.id}, target |-> cve_id]

\* The duplicate check looking at the steps of this pass only.
HasTarget_new_only(steps, new_steps, cve_id) ==
    \E k \in 1..Len(new_steps) : new_steps[k].target = cve_id

\* any(s.target == cve_id for s in plan.steps + new_steps)
HasTarget(steps, new_steps, cve_id) ==
    \E k \in 1..Len(steps \o new_steps) : (steps \o new_steps)[k].target = cve_id

\* for i, cve_id in enumerate(cve_ids): ... (i counts from 0)
RECURSIVE RefineCves(_, _, _, _, _)
RefineCves(steps, step, cve_ids, i, new_steps) ==
    IF i >= Len(cve_ids) THEN new_steps
    ELSE LET cve_id == cve_ids[i + 1]
         IN IF HasTarget(steps, new_steps, cve_id)
            THEN RefineCves(steps, step, cve_ids, i + 1, new_steps)
            ELSE RefineCves(steps, step, cve_ids, i + 1,
                            Append(new_steps, NewDetailStep(step, i, cve_id)))

\* for step in plan.steps: ... (k is the position of step)
RECURSIVE RefineSteps(_, _, _, _)
RefineSteps(steps, results, k, new_steps) ==
    IF k > Len(steps) THEN new_steps
    ELSE LET step == steps[k]
         IN IF /\ step.step_type = "vuln_discovery"
               /\ step.id \in DOMAIN results
               /\ results[step.id].type = "vuln_discovery"
            THEN RefineSteps(steps, results, k + 1,
                             RefineCves(steps, step, results[step.id].cve_ids, 0, new_steps))
            ELSE RefineSteps(steps, results, k + 1, new_steps)

\* The new_steps list of one PlanRefineNode call.
NewSteps(p, results) ==
    IF p.is_none \/ p.steps = <<>> THEN <<>> ELSE RefineSteps(p.steps, results, 1, <<>>)

\* The plan after one PlanRefineNode call.
Refined(p, results) ==
    IF NewSteps(p, results) = <<>> THEN p ELSE Plan(p.steps \o NewSteps(p, results))

\* ---------------------------------------------------------- WorkerTeamNode
\* The dependency check failing for a step that depends on nothing.
_deps_done_some(step, results) ==
    /\ step.depends_on # {}
    /\ \A dep_id \in step.depends_on : dep_id \in DOMAIN results

\* The dependency check passing as soon as one dependency has a result.
_deps_done_any(step, results) ==
    IF step.depends_on = {} THEN TRUE
    ELSE \E dep_id \in step.depends_on : dep_id \in DOMAIN results

_deps_done(step, results) ==
    IF step.depends_on = {} THEN TRUE
    ELSE \A dep_id \in step.depends_on : dep_id \in DOMAIN results

\* The refinement check with the test inverted: it keeps the finished
\* discovery steps that some step depends on.
candidates_for_refine_depended(steps, results) ==
    SelectSeq(steps, LAMBDA step :
        /\ step.step_type = "vuln_discovery"
        /\ step.id \in DOMAIN results
        /\ \E k \in 1..Len(steps) : step.id \in steps[k].depends_on)

candidates_for_refine(steps, results) ==
    SelectSeq(steps, LAMBDA step :
        /\ step.step_type = "vuln_discovery"
        /\ step.id \in DOMAIN results
        /\ ~ \E k \in 1..Len(steps) : step.id \in steps[k].depends_on)

pending_steps(steps, results) ==
    SelectSeq(steps, LAMBDA s : s.id \notin DOMAIN results)

runnable(steps, results) ==
    SelectSeq(pending_steps(steps, results), LAMBDA s : _deps_done(s, results))

\* The stage of the first runnable step instead of the lowest one.
min_stage_first(run) == run[1].stage

min_stage(run) ==
    CHOOSE m \in {run[k].stage : k \in 1..Len(run)} : \A k \in 1..Len(run) : m <= run[k].stage

runnable_at_stage(steps, results) ==
    LET run == runnable(steps, results)
    IN SelectSeq(run, LAMBDA s : s.stage = min_stage(run))

Send(node, step_id) == [node |-> node, step_id |-> step_id]

\* Only the first parallel step gets a Send.
jobs_first_only(at_stage) ==
    LET par == SelectSeq(at_stage, LAMBDA s : STEP_CONFIG(s.step_type))
    IN IF par = <<>> THEN <<>>
       ELSE <<Send(_node_for_step_type(par[1].step_type), par[1].id)>>

\* The Sends appended to jobs, in the order of runnable_at_stage.
RECURSIVE jobs(_)
jobs(at_stage) ==
    IF at_stage = <<>> THEN <<>>
    ELSE LET step == Head(at_stage)
         IN IF STEP_CONFIG(step.step_type)
            THEN <<Send(_node_for_step_type(step.step_type), step.id)>> \o jobs(Tail(at_stage))
            ELSE jobs(Tail(at_stage))

\* Every serial step of the stage instead of the first one.
serial_step_all(at_stage) == SelectSeq(at_stage, LAMBDA s : ~STEP_CONFIG(s.step_type))

\* serial_step: the first step of runnable_at_stage whose kind is not
\* parallel, as a list of at most one step.
serial_step(at_stage) ==
    LET serial == SelectSeq(at_stage, LAMBDA s : ~STEP_CONFIG(s.step_type))
    IN IF serial = <<>> THEN <<>> ELSE <<Head(serial)>>

\* [Send(node_name, {"step_id": serial_step.id})]
SerialSends(serial) ==
    [k \in 1..Len(serial) |-> Send(_node_for_step_type(serial[k].step_type), serial[k].id)]

Route(node) == [goto |-> node, jobs |-> <<>>]
Dispatch(sends) == [goto |-> "", jobs |-> sends]

\* What WorkerTeamNode returns for the state it is given.
WorkerDecision(p, results) ==
    IF p.is_none \/ p.steps = <<>> THEN Route("PlannerNode")
    ELSE IF candidates_for_refine(p.steps, results) # <<>> THEN Route("PlanRefineNode")
    ELSE IF pending_steps(p.steps, results) = <<>> THEN Route("TriageNode")
    ELSE IF runnable(p.steps, results) = <<>> THEN Route("TriageNode")
    ELSE LET at_stage == runnable_at_stage(p.steps, results)
         IN IF jobs(at_stage) # <<>> THEN Dispatch(jobs(at_stage))
            ELSE IF serial_step(at_stage) # <<>>
                 THEN Dispatch(SerialSends(serial_step(at_stage)))
                 ELSE Route("TriageNode")

\* The node instances a decision activates.
Targets(d) ==
    IF d.goto # "" THEN {Goto(d.goto)}
    ELSE {Task(d.jobs[k].node, d.jobs[k].step_id, k) : k \in 1..Len(d.jobs)}

\* Number of Sends for step_id in a list of Sends.
SendCount(sends, step_id) == Cardinality({k \in 1..Len(sends) : sends[k].step_id = step_id})

\* ------------------------------------------------------------------- Init
\* The run after UserFeedbackNode has returned for an approved plan: the
\* first superstep of the resumed invocation is over, WorkerTeamNode is
\* the active set, and no step has a result.
Init ==
    /\ plan \in Plans
    /\ step_results = <<>>
    /\ active = {Goto("WorkerTeamNode")}
    /\ updates = {}
    /\ plan_update = {}
    /\ next_active = {}
    /\ supersteps = 1
    /\ run_status = "running"
    /\ last_node = "UserFeedbackNode"
    /\ last_decision = Route("")
    /\ invocations = 0
    /\ dispatch_count = <<>>
    /\ write_count = <<>>
    /\ messages = <<>>
    /\ plan_iterations = 1
    /\ plan_review_status = "approved"
    /\ field_update = <<>>
    /\ resume_value = NoDecision
    /\ caller = "in_call"
    /\ node_state = NodeState(plan, messages, plan_iterations, step_results)
    /\ refine_noop = FALSE
    /\ planner_calls = 1
    /\ resume_entry = "UserFeedbackNode"
    /\ delivered = Decision(TRUE, "")
    /\ feedback = Decision(TRUE, "")
    /\ SubIdle
    /\ AppIdle

\* ---------------------------------------------------------------- actions
WorkerTeamNode ==
    \E t \in active :
        /\ run_status = "running"
        /\ t.node = "WorkerTeamNode"
        /\ LET d == WorkerDecision(plan, step_results)
           IN /\ active' = active \ {t}
              /\ next_active' = next_active \cup Targets(d)
              /\ last_decision' = d
              /\ dispatch_count' =
                    [i \in DOMAIN dispatch_count \cup {d.jobs[k].step_id : k \in 1..Len(d.jobs)} |->
                        (IF i \in DOMAIN dispatch_count THEN dispatch_count[i] ELSE 0)
                        + SendCount(d.jobs, i)]
        /\ last_node' = "WorkerTeamNode"
        /\ invocations' = invocations + 1
        /\ Unmutated
        /\ Entered("WorkerTeamNode")
        /\ UNCHANGED <<plan, step_results, updates, plan_update, supersteps, run_status, write_count>>
        /\ UNCHANGED <<front, refine_noop>>
        /\ UNCHANGED <<sub, app>>

PlanRefineNode ==
    \E t \in active :
        /\ run_status = "running"
        /\ t.node = "PlanRefineNode"
        /\ active' = active \ {t}
        /\ plan_update' = IF NewSteps(plan, step_results) # <<>>
                          THEN {Refined(plan, step_results)} ELSE plan_update
        /\ next_active' = next_active \cup {Goto("WorkerTeamNode")}
        /\ last_node' = "PlanRefineNode"
        /\ refine_noop' = (NewSteps(plan, step_results) = <<>>)
        \* plan.steps.extend(new_steps): the plan of the State given is extended
        /\ node_state' = NodeState(Refined(plan, step_results), messages,
                                   plan_iterations, step_results)
        /\ Entered("PlanRefineNode")
        /\ UNCHANGED <<plan, step_results, updates, supersteps, run_status,
                       last_decision, invocations, dispatch_count, write_count>>
        /\ UNCHANGED front
        /\ UNCHANGED <<sub, app>>

\* An executor wrapper that goes back to WorkerTeamNode without the
\* step_results entry.
Executor_no_result(t, results) ==
    /\ active' = active \ {t}
    /\ updates' = updates
    /\ next_active' = next_active \cup {Goto("WorkerTeamNode")}
    /\ last_node' = t.node
    /\ refine_noop' = FALSE
    /\ Unmutated
    /\ Entered(t.node)
    /\ UNCHANGED <<plan, step_results, plan_update, supersteps, run_status,
                   last_decision, invocations, dispatch_count, write_count>>
    /\ UNCHANGED front
    /\ UNCHANGED app

\* An executor wrapper that also returns the plan in its update, as a
\* node that keeps the results in the steps of the plan does.
Executor_updates_plan(t, results) ==
    /\ active' = active \ {t}
    /\ IF t.step_id = NoStep \/ plan.is_none
          \/ ~ \E k \in 1..Len(plan.steps) : plan.steps[k].id = t.step_id
       THEN updates' = updates /\ plan_update' = plan_update
       ELSE /\ \E r \in results : updates' = updates \cup {<<t.step_id, r>>}
            /\ plan_update' = {plan}
    /\ next_active' = next_active \cup {Goto("WorkerTeamNode")}
    /\ last_node' = t.node
    /\ refine_noop' = FALSE
    /\ Unmutated
    /\ Entered(t.node)
    /\ UNCHANGED <<plan, step_results, supersteps, run_status,
                   last_decision, invocations, dispatch_count, write_count>>
    /\ UNCHANGED front
    /\ UNCHANGED app

\* What the three executor wrapper nodes share: look the step up, run the
\* subgraph, return its result under the step id and go back to
\* WorkerTeamNode.
Executor(t, results) ==
    /\ active' = active \ {t}
    /\ IF t.step_id = NoStep \/ plan.is_none
          \/ ~ \E k \in 1..Len(plan.steps) : plan.steps[k].id = t.step_id
       THEN updates' = updates
       ELSE \E r \in results : updates' = updates \cup {<<t.step_id, r>>}
    /\ next_active' = next_active \cup {Goto("WorkerTeamNode")}
    /\ last_node' = t.node
    /\ refine_noop' = FALSE
    /\ Unmutated
    /\ Entered(t.node)
    /\ UNCHANGED <<plan, step_results, plan_update, supersteps, run_status,
                   last_decision, invocations, dispatch_count, write_count>>
    /\ UNCHANGED front
    /\ UNCHANGED app

AssetsAnalzerNode ==
    \E t \in active :
        /\ run_status = "running"
        /\ t.node = "AssetsAnalzerNode"
        /\ Executor(t, {AssetResult})
        /\ UNCHANGED sub

VulnDiscoveryNode ==
    \E t \in active :
        /\ run_status = "running"
        /\ t.node = "VulnDiscoveryNode"
        /\ Executor(t, DiscoveryResults)
        /\ UNCHANGED sub

VulnDetailNode ==
    \E t \in active :
        /\ run_status = "running"
        /\ t.node = "VulnDetailNode"
        /\ Executor(t, {DetailResult})
        /\ UNCHANGED sub

TriageNode ==
    \E t \in active :
        /\ run_status = "running"
        /\ t.node = "TriageNode"
        /\ active' = active \ {t}
        /\ next_active' = next_active \cup {Goto("ReporterNode")}
        /\ last_node' = "TriageNode"
        /\ refine_noop' = FALSE
        /\ Unmutated
        /\ Entered("TriageNode")
        /\ UNCHANGED <<plan, step_results, updates, plan_update, supersteps, run_status,
                       last_decision, invocations, dispatch_count, write_count>>
        /\ UNCHANGED front
        /\ UNCHANGED <<sub, app>>

ReporterNode ==
    \E t \in active :
        /\ run_status = "running"
        /\ t.node = "ReporterNode"
        /\ active' = active \ {t}
        /\ last_node' = "ReporterNode"
        \* "messages": [AIMessage(content=final_report, name="ReporterNode")]
        /\ field_update' = [f \in DOMAIN field_update \cup {"messages"} |->
                               IF f = "messages" THEN <<Message(0, "ReporterNode")>>
                               ELSE field_update[f]]
        /\ refine_noop' = FALSE
        /\ Unmutated
        /\ Entered("ReporterNode")
        /\ UNCHANGED <<plan, step_results, updates, plan_update, next_active, supersteps,
                       run_status, last_decision, invocations, dispatch_count, write_count>>
        /\ UNCHANGED <<messages, plan_iterations, plan_review_status, resume_value,
                       caller, planner_calls, delivered, feedback>>
        /\ UNCHANGED <<sub, app>>

\* step_results: Annotated[Dict[str, Any], operator.or_]; the merged maps
\* for the updates of one superstep (one value per key; when two updates
\* carry the same key, the one applied last stays).
Merged(results, ups) ==
    LET keys == {u[1] : u \in ups}
    IN {[i \in DOMAIN results \cup keys |-> IF i \in keys THEN f[i] ELSE results[i]] :
            f \in {g \in [keys -> {u[2] : u \in ups}] : \A i \in keys : <<i, g[i]>> \in ups}}

\* The barrier that ends a superstep.
EngineBarrier ==
    /\ active = {}
    /\ step_results' \in Merged(step_results, updates)
    /\ plan' = IF plan_update = {} THEN plan ELSE CHOOSE p \in plan_update : TRUE
    /\ write_count' =
          [i \in DOMAIN write_count \cup {u[1] : u \in updates} |->
              (IF i \in DOMAIN write_count THEN write_count[i] ELSE 0)
              + Cardinality({u \in updates : u[1] = i})]
    /\ supersteps' = supersteps + 1
    /\ updates' = {}
    /\ plan_update' = {}
    /\ next_active' = {}
    /\ IF next_active = {} THEN run_status' = "done" /\ active' = {}
       ELSE IF supersteps + 1 >= RecursionLimit
            THEN run_status' = "recursion_exceeded" /\ active' = {}
            ELSE run_status' = "running" /\ active' = next_active
    /\ messages' = IF "messages" \in DOMAIN field_update
                   THEN add_messages(messages, field_update["messages"]) ELSE messages
    /\ plan_iterations' = IF "plan_iterations" \in DOMAIN field_update
                          THEN field_update["plan_iterations"] ELSE plan_iterations
    /\ plan_review_status' = IF "plan_review_status" \in DOMAIN field_update
                             THEN field_update["plan_review_status"] ELSE plan_review_status
    /\ field_update' = <<>>
    /\ caller' = run_agent_workflow_async(run_status')
    /\ node_state' = NodeState(plan', messages', plan_iterations', step_results')
    /\ UNCHANGED <<last_node, last_decision, invocations, dispatch_count,
                   resume_value, refine_noop, planner_calls, resume_entry,
                   delivered, feedback>>
    /\ pending_plan' = _maybe_prompt_plan(caller', plan_review_status', pending_plan)
    /\ checkpoint' = Saved(plan', messages', plan_iterations', plan_review_status',
                           step_results')
    /\ UNCHANGED <<sub, overlapping, builder>>

\* The barrier, for runs followed up to MaxSupersteps supersteps.
Barrier ==
    /\ run_status = "running"
    /\ supersteps < MaxSupersteps
    /\ EngineBarrier

Next ==
    \/ WorkerTeamNode
    \/ PlanRefineNode
    \/ AssetsAnalzerNode
    \/ VulnDiscoveryNode
    \/ VulnDetailNode
    \/ TriageNode
    \/ ReporterNode
    \/ Barrier

Spec == Init /\ [][Next]_vars


\* ------------------------------------------------- runs up to the real cap
\* The same run followed to its end: the only limit is recursion_limit.
BarrierUncut ==
    /\ run_status = "running"
    /\ supersteps < RecursionLimit
    /\ EngineBarrier

\* Plans of at most two steps.
CapPlans == {p \in Plans : Len(p.steps) <= 2}

CapInit ==
    /\ plan \in CapPlans
    /\ step_results = <<>>
    /\ active = {Goto("WorkerTeamNode")}
    /\ updates = {}
    /\ plan_update = {}
    /\ next_active = {}
    /\ supersteps = 1
    /\ run_status = "running"
    /\ last_node = "UserFeedbackNode"
    /\ last_decision = Route("")
    /\ invocations = 0
    /\ dispatch_count = <<>>
    /\ write_count = <<>>
    /\ messages = <<>>
    /\ plan_iterations = 1
    /\ plan_review_status = "approved"
    /\ field_update = <<>>
    /\ resume_value = NoDecision
    /\ caller = "in_call"
    /\ node_state = NodeState(plan, messages, plan_iterations, step_results)
    /\ refine_noop = FALSE
    /\ planner_calls = 1
    /\ resume_entry = "UserFeedbackNode"
    /\ delivered = Decision(TRUE, "")
    /\ feedback = Decision(TRUE, "")
    /\ SubIdle
    /\ AppIdle

CapNext ==
    \/ WorkerTeamNode
    \/ PlanRefineNode
    \/ AssetsAnalzerNode
    \/ VulnDiscoveryNode
    \/ VulnDetailNode
    \/ TriageNode
    \/ ReporterNode
    \/ BarrierUncut

CapSpec == CapInit /\ [][CapNext]_vars

\* ------------------------------------------------- the run from its start
\* The plans the planning model answers with: no step, or one step at
\* stage 0 without dependencies.
RunPlans ==
    {Plan(<<>>)} \cup {p \in Plans : /\ Len(p.steps) = 1
                                     /\ p.steps[1].stage = 0
                                     /\ p.steps[1].depends_on = {}}

\* What parse_plan_from_llm makes of the answer: None, or a Plan with its
\* two flags.
PlannerResponses ==
    {[plan |-> NonePlan, has_enough_context |-> FALSE, finish_plan |-> FALSE]}
    \cup {[plan |-> p, has_enough_context |-> h, finish_plan |-> f] :
             p \in RunPlans, h \in BOOLEAN, f \in BOOLEAN}

\* response.content: the JSON text of a plan, or text that is none.
PlannerContents ==
    {[json |-> TRUE, plan |-> r.plan, has_enough_context |-> r.has_enough_context,
      finish_plan |-> r.finish_plan] : r \in {q \in PlannerResponses : ~q.plan.is_none}}
    \cup {[json |-> FALSE, plan |-> Plan(<<>>), has_enough_context |-> TRUE,
            finish_plan |-> TRUE]}

\* parse_plan_from_llm(response.content): the Plan the text is, or None
\* for text that cannot be parsed into one.
parse_plan_from_llm(content) ==
    IF content.json
    THEN [plan |-> content.plan, has_enough_context |-> content.has_enough_context,
          finish_plan |-> content.finish_plan]
    ELSE [plan |-> NonePlan, has_enough_context |-> FALSE, finish_plan |-> FALSE]

SetField(fu, f, v) == [g \in DOMAIN fu \cup {f} |-> IF g = f THEN v ELSE fu[g]]

\* The run as run_agent_workflow_async starts it: the initial State, the
\* entry node active.
RunInit ==
    /\ plan = NonePlan
    /\ step_results = <<>>
    /\ active = {Goto("CoordinatorNode")}
    /\ updates = {}
    /\ plan_update = {}
    /\ next_active = {}
    /\ supersteps = 0
    /\ run_status = "running"
    /\ last_node = "START"
    /\ last_decision = Route("")
    /\ invocations = 0
    /\ dispatch_count = <<>>
    /\ write_count = <<>>
    /\ messages = <<>>
    /\ plan_iterations = 0
    /\ plan_review_status = "none"
    /\ field_update = <<>>
    /\ resume_value = NoDecision
    /\ caller = "in_call"
    /\ node_state = NodeState(plan, messages, plan_iterations, step_results)
    /\ refine_noop = FALSE
    /\ planner_calls = 0
    /\ resume_entry = "none"
    /\ delivered = NoDecision
    /\ feedback = NoDecision
    /\ SubIdle
    /\ AppIdle

CoordinatorNode ==
    \E t \in active : \E content \in BOOLEAN :
        /\ run_status = "running"
        /\ t.node = "CoordinatorNode"
        /\ active' = active \ {t}
        /\ LET msgs == IF content
                       THEN Append(messages, Message(0, "CoordinatorNode"))
                       ELSE messages
           IN /\ field_update' = SetField(field_update, "messages", msgs)
              \* messages.append(...) on the list of the State given
              /\ node_state' = NodeState(plan, msgs, plan_iterations, step_results)
        /\ next_active' = next_active \cup {Goto("PlannerNode")}
        /\ last_node' = "CoordinatorNode"
        /\ refine_noop' = FALSE
        /\ Entered("CoordinatorNode")
        /\ UNCHANGED <<plan, step_results, updates, plan_update, supersteps, run_status,
                       last_decision, invocations, dispatch_count, write_count>>
        /\ UNCHANGED <<messages, plan_iterations, plan_review_status, resume_value,
                       caller, planner_calls, delivered, feedback>>
        /\ UNCHANGED <<sub, app>>

\* The limit test letting one more iteration through.
PlannerLimitReached_off_by_one(iterations) == iterations > max_plan_iterations

\* plan_iterations >= settings.max_plan_iterations
PlannerLimitReached(iterations) == iterations >= max_plan_iterations

\* The routing that takes an answer without a plan for the end of the
\* planning.
PlannerGoto_none_ends(response) ==
    IF response.plan.is_none THEN "ReporterNode"
    ELSE IF response.has_enough_context THEN "ReporterNode"
    ELSE IF response.finish_plan THEN "UserFeedbackNode"
    ELSE "PlannerNode"

PlannerGoto(response) ==
    IF response.plan.is_none THEN "PlannerNode"
    ELSE IF response.has_enough_context THEN "ReporterNode"
    ELSE IF response.finish_plan THEN "UserFeedbackNode"
    ELSE "PlannerNode"

\* A planner that leaves plan_review_status as it finds it.
PlannerReviewStatus_kept(response, status) == status

PlannerReviewStatus(response, status) ==
    IF response.plan.is_none THEN status
    ELSE IF response.has_enough_context THEN "none"
    ELSE IF response.finish_plan THEN "pending"
    ELSE status

PlannerNode ==
    \E t \in active :
        /\ run_status = "running"
        /\ t.node = "PlannerNode"
        /\ last_node' = "PlannerNode"
        /\ refine_noop' = FALSE
        /\ Entered("PlannerNode")
        /\ IF PlannerLimitReached(plan_iterations)
           THEN \* update=preserve_state_meta_fields(state), goto="ReporterNode"
                /\ active' = active \ {t}
                /\ field_update' = SetField(SetField(field_update,
                                        "plan_iterations", plan_iterations),
                                        "plan_review_status", plan_review_status)
                /\ next_active' = next_active \cup {Goto("ReporterNode")}
                /\ Unmutated
                /\ UNCHANGED <<plan_update, planner_calls, run_status, caller>>
           ELSE IF messages = <<>>
           THEN \* assert len(state["messages"]) > 0
                /\ run_status' = "failed"
                /\ caller' = run_agent_workflow_async("failed")
                /\ active' = {}
                /\ Unmutated
                /\ UNCHANGED <<field_update, next_active, plan_update, planner_calls>>
           ELSE \E content \in PlannerContents :
                LET response == parse_plan_from_llm(content)
                IN /\ active' = active \ {t}
                   /\ planner_calls' = planner_calls + 1
                   \* msgs += [...] and state["plan_iterations"] = plan_iterations
                   /\ node_state' =
                         NodeState(plan,
                                   messages \o <<Message(0, "PlannerNode")>>
                                       \o (IF plan_iterations > 0
                                            THEN <<Message(0, "PlannerNode")>> ELSE <<>>),
                                   plan_iterations + 1, step_results)
                   /\ field_update' = SetField(SetField(field_update,
                                           "plan_iterations", plan_iterations + 1),
                                           "plan_review_status",
                                           PlannerReviewStatus(response, plan_review_status))
                   /\ plan_update' = {response.plan}
                   /\ next_active' = next_active \cup {Goto(PlannerGoto(response))}
                   /\ UNCHANGED <<run_status, caller>>
        /\ UNCHANGED <<plan, step_results, updates, supersteps,
                       last_decision, invocations, dispatch_count, write_count>>
        /\ UNCHANGED <<messages, plan_iterations, plan_review_status, resume_value,
                       delivered, feedback>>
        /\ UNCHANGED <<sub, app>>

\* plan.model_dump(): the plan as a dict of its fields.
model_dump(p) == [steps |-> p.steps]

\* The value UserFeedbackNode hands to interrupt().
interrupt_value(state) ==
    [type |-> "plan_approval", plan |-> model_dump(state.plan), run_id |-> "run"]

\* feedback.get("approved") with None for a missing key: a value without
\* the field read as an approval would need this default to be true.
get_approved_or_true(value) ==
    IF "approved" \in DOMAIN value THEN value.approved ELSE TRUE

\* feedback.get("approved", False)
get_approved(value) ==
    IF "approved" \in DOMAIN value THEN value.approved ELSE FALSE

\* The node approved plans go to, whatever the decision.
UserFeedbackGoto_always_planner(approved) == "PlannerNode"

UserFeedbackGoto(approved) == IF approved THEN "WorkerTeamNode" ELSE "PlannerNode"

\* The message list of a rejection without the comment.
RejectedMessages_no_comment(msgs, comment) == msgs

\* messages.append(SystemMessage(f"User feedback: {comment}")) if comment
RejectedMessages(msgs, comment) ==
    IF comment # "" THEN Append(msgs, Message(0, "UserFeedback")) ELSE msgs

UserFeedbackNode ==
    \E t \in active :
        /\ run_status = "running"
        /\ t.node = "UserFeedbackNode"
        /\ last_node' = "UserFeedbackNode"
        /\ refine_noop' = FALSE
        /\ Entered("UserFeedbackNode")
        /\ IF plan.is_none
           THEN /\ active' = active \ {t}
                /\ next_active' = next_active \cup {Goto("PlannerNode")}
                /\ Unmutated
                /\ UNCHANGED <<field_update, run_status, caller, resume_value, feedback>>
           ELSE IF resume_value = NoDecision
           THEN \* interrupt(...): the run is suspended at this node and the
                \* stream ends with the interrupt
                /\ run_status' = "suspended"
                /\ caller' = run_agent_workflow_async("suspended")
                /\ Unmutated
                /\ UNCHANGED <<active, next_active, field_update, resume_value, feedback>>
           ELSE /\ active' = active \ {t}
                /\ feedback' = resume_value
                /\ resume_value' = NoDecision
                /\ next_active' = next_active \cup
                                      {Goto(UserFeedbackGoto(get_approved(resume_value)))}
                /\ IF get_approved(resume_value)
                   THEN /\ field_update' = SetField(field_update,
                                                    "plan_review_status", "approved")
                        /\ Unmutated
                   ELSE LET msgs == RejectedMessages(messages, resume_value.comment)
                        IN /\ field_update' = SetField(SetField(field_update,
                                                    "plan_review_status", "rejected"),
                                                    "messages", msgs)
                           /\ node_state' = NodeState(plan, msgs, plan_iterations,
                                                      step_results)
                /\ UNCHANGED <<run_status, caller>>
        /\ UNCHANGED <<plan, step_results, updates, plan_update, supersteps,
                       last_decision, invocations, dispatch_count, write_count>>
        /\ UNCHANGED <<messages, plan_iterations, plan_review_status,
                       planner_calls, delivered>>
        /\ pending_plan' = _maybe_prompt_plan(caller', plan_review_status, pending_plan)
        /\ UNCHANGED <<sub, overlapping, checkpoint, builder>>

\* tui.py: the decision is the resume value of a new invocation of the
\* graph, which starts at the suspended node.
VulnGraphApp_resume_with_feedback ==
    \E approved \in BOOLEAN, comment \in Comments :
        /\ run_status = "suspended"
        /\ resume_value' = Decision(approved, comment)
        /\ delivered' = Decision(approved, comment)
        /\ resume_entry' = "awaiting"
        /\ run_status' = "running"
        /\ caller' = run_agent_workflow_async("running")
        /\ supersteps' = 0
        /\ UNCHANGED <<plan, step_results, active, updates, plan_update, next_active,
                       last_node, last_decision, invocations, dispatch_count,
                       write_count, messages, plan_iterations, plan_review_status,
                       field_update, node_state, refine_noop, planner_calls, feedback>>
        /\ UNCHANGED <<sub, app>>

\* run_agent_workflow_async called with a resume value that has a comment
\* and no "approved": the value is handed to the suspended node as it is.
run_agent_workflow_async_resume ==
    \E comment \in Comments :
        /\ run_status = "suspended"
        /\ resume_value' = [comment |-> comment]
        /\ delivered' = [comment |-> comment]
        /\ resume_entry' = "awaiting"
        /\ run_status' = "running"
        /\ caller' = run_agent_workflow_async("running")
        /\ supersteps' = 0
        /\ UNCHANGED <<plan, step_results, active, updates, plan_update, next_active,
                       last_node, last_decision, invocations, dispatch_count,
                       write_count, messages, plan_iterations, plan_review_status,
                       field_update, node_state, refine_noop, planner_calls, feedback>>
        /\ UNCHANGED <<sub, app>>

\* The stored State with the decision recorded in it.
update_plan_feedback_state(approved) == IF approved THEN "approved" ELSE "rejected"

\* main.py: the stored State with the decision recorded is the input of a
\* new invocation of the graph, without a resume value: the invocation
\* starts at the entry node.
resume_with_feedback ==
    \E approved \in BOOLEAN, comment \in Comments :
        /\ run_status = "suspended"
        /\ plan_review_status' = update_plan_feedback_state(approved)
        /\ delivered' = Decision(approved, comment)
        /\ resume_entry' = "awaiting"
        /\ resume_value' = NoDecision
        /\ active' = {Goto("CoordinatorNode")}
        /\ run_status' = "running"
        /\ caller' = run_agent_workflow_async("running")
        /\ supersteps' = 0
        /\ node_state' = NodeState(plan, messages, plan_iterations, step_results)
        /\ UNCHANGED <<plan, step_results, updates, plan_update, next_active,
                       last_node, last_decision, invocations, dispatch_count,
                       write_count, messages, plan_iterations, field_update,
                       refine_noop, planner_calls, feedback>>
        \* update_plan_feedback_state stores the State it returns
        /\ checkpoint' = Saved(plan, messages, plan_iterations, plan_review_status',
                               step_results)
        /\ UNCHANGED <<sub, pending_plan, overlapping, builder>>

RunNext ==
    \/ CoordinatorNode
    \/ PlannerNode
    \/ UserFeedbackNode
    \/ VulnGraphApp_resume_with_feedback
    \/ resume_with_feedback
    \/ WorkerTeamNode
    \/ PlanRefineNode
    \/ AssetsAnalzerNode
    \/ VulnDiscoveryNode
    \/ VulnDetailNode
    \/ TriageNode
    \/ ReporterNode
    \/ Barrier

RunSpec == RunInit /\ [][RunNext]_vars

\* The run with resume values of any shape.
ResumeNext ==
    \/ RunNext
    \/ run_agent_workflow_async_resume

ResumeSpec == RunInit /\ [][ResumeNext]_vars

\* ------------------------------------------------ the step_results reducer
\* The reducer keeping the entry that is there.
or_keep_left(a, b) ==
    [i \in DOMAIN a \cup DOMAIN b |-> IF i \in DOMAIN a THEN a[i] ELSE b[i]]

\* operator.or_ on two dicts: the keys of both, the value of the right one
\* where both have the key.
or_(a, b) ==
    [i \in DOMAIN a \cup DOMAIN b |-> IF i \in DOMAIN b THEN b[i] ELSE a[i]]

\* {step_id: result}
Entry(u) == [i \in {u[1]} |-> u[2]]

\* The reducer applied to one of the updates of the superstep.
or_step ==
    \E u \in updates :
        /\ run_status = "running"
        /\ active = {}
        /\ step_results' = or_(step_results, Entry(u))
        /\ updates' = updates \ {u}
        /\ write_count' =
              [i \in DOMAIN write_count \cup {u[1]} |->
                  (IF i \in DOMAIN write_count THEN write_count[i] ELSE 0)
                  + (IF i = u[1] THEN 1 ELSE 0)]
        /\ node_state' = NodeState(plan, messages, plan_iterations, step_results')
        /\ UNCHANGED <<plan, active, plan_update, next_active, supersteps, run_status,
                       last_node, last_decision, invocations, dispatch_count,
                       refine_noop, resume_entry>>
        /\ UNCHANGED front
        /\ UNCHANGED <<sub, app>>

MergeKeys == {PlanId(i) : i \in 1..Len(PlannerIds)}
MergeValues == {AssetResult, DetailResult}

\* The inputs of the reducer: a step_results map and the updates of one
\* superstep, which may carry the same key more than once.
MergeInit ==
    /\ plan = NonePlan
    /\ step_results \in UNION {[S -> MergeValues] : S \in SUBSET MergeKeys}
    /\ updates \in SUBSET (MergeKeys \X MergeValues)
    /\ active = {}
    /\ plan_update = {}
    /\ next_active = {}
    /\ supersteps = 2
    /\ run_status = "running"
    /\ last_node = "AssetsAnalzerNode"
    /\ last_decision = Route("")
    /\ invocations = 1
    /\ dispatch_count = <<>>
    /\ write_count = <<>>
    /\ messages = <<>>
    /\ plan_iterations = 1
    /\ plan_review_status = "approved"
    /\ field_update = <<>>
    /\ resume_value = NoDecision
    /\ caller = "in_call"
    /\ node_state = NodeState(plan, messages, plan_iterations, step_results)
    /\ refine_noop = FALSE
    /\ planner_calls = 1
    /\ resume_entry = "UserFeedbackNode"
    /\ delivered = Decision(TRUE, "")
    /\ feedback = Decision(TRUE, "")
    /\ SubIdle
    /\ AppIdle

MergeNext ==
    \/ or_step
    \/ BarrierUncut

MergeSpec == MergeInit /\ [][MergeNext]_vars

\* ------------------------------------------------- the executor subgraphs
\* Each executor wrapper invokes a compiled subgraph: a reasoning node,
\* tools_condition, a ToolNode, and the edge from the ToolNode back to the
\* reasoning node.  The subgraph is run by the same superstep engine on a
\* state of its own: messages, step and result.

\* Number of reasoning responses with tool requests an invocation is
\* followed for.
MaxToolRounds == 2
\* Largest number of tool requests in one reasoning response.
MaxToolCalls == 2

\* The subgraph each wrapper invokes.
SubgraphOf(node) ==
    CASE node = "AssetsAnalzerNode" -> "asset_analysis_subgraph"
      [] node = "VulnDiscoveryNode" -> "vuln_discovery_subgraph"
      [] node = "VulnDetailNode" -> "vuln_detail_subgraph"
      [] OTHER -> "none"

\* The response of the reasoning model with its number of tool_calls, and
\* the message a ToolNode returns for one tool call: the tool's output, or
\* the error it ended with.
AIMessage(tool_calls) == Message(0, <<"ai", tool_calls>>)
ToolMessage(status) == Message(0, <<"tool", status>>)
ToolStatuses == {"success", "error"}

\* The channel of "messages" in the state of a subgraph: AssetSubState and
\* VulnDiscoverySubState are MessagesState, whose reducer is add_messages;
\* VulnDetailSubState declares messages: List[BaseMessage] with no
\* reducer, so an update replaces the value.
sub_messages_reducer(node, left, right) ==
    IF SubgraphOf(node) = "vuln_detail_subgraph" THEN right ELSE add_messages(left, right)

\* The prebuilt tools_condition: "tools" when the last message is a
\* response with tool calls, "__end__" otherwise.
tools_condition(msgs) ==
    IF msgs # <<>> /\ msgs[Len(msgs)].name[1] = "ai" /\ msgs[Len(msgs)].name[2] > 0
    THEN "tools" ELSE "__end__"

\* The results a reasoning node builds from a response without tool calls.
SubgraphResults(node) ==
    CASE SubgraphOf(node) = "asset_analysis_subgraph" -> {AssetResult}
      [] SubgraphOf(node) = "vuln_discovery_subgraph" ->
            {r \in DiscoveryResults : Len(r.cve_ids) <= 1}
      [] OTHER -> {DetailResult}

\* A reasoning node that returns a result with every response.
AnalyzerResult_always(tool_calls, r, old) == r

\* "result" after a reasoning node has returned: the node puts it in its
\* update only when the response has no tool calls.
AnalyzerResult(tool_calls, r, old) == IF tool_calls = 0 THEN r ELSE old

\* An invocation whose supersteps are not counted against any limit.
subgraph_recursion_limit_none == RecursionLimit * RecursionLimit

\* The recursion limit of subgraph.invoke(sub_state): the call names no
\* config of its own, so the limit is the one of the run it is made in.
subgraph_recursion_limit == RecursionLimit

\* What a subgraph step leaves alone in the run around it.
OuterUnchanged ==
    /\ UNCHANGED <<plan, step_results, active, updates, plan_update, next_active,
                   supersteps, run_status, last_node, last_decision, invocations,
                   dispatch_count, write_count, node_state, refine_noop,
                   resume_entry>>
    /\ UNCHANGED front
    /\ UNCHANGED app

\* An exception that leaves subgraph.invoke: the wrappers do not catch it,
\* so it leaves the wrapper node and ends the stream of the run, and
\* run_agent_workflow_async raises it again.
wrapper_raises ==
    /\ sub_pos' = "raised"
    /\ run_status' = "failed"
    /\ caller' = run_agent_workflow_async("failed")
    /\ active' = {}
    /\ UNCHANGED <<plan, step_results, updates, plan_update, next_active,
                   supersteps, last_node, last_decision, invocations,
                   dispatch_count, write_count, node_state, refine_noop,
                   resume_entry>>
    /\ UNCHANGED <<messages, plan_iterations, plan_review_status, field_update,
                   resume_value, planner_calls, delivered, feedback>>
    /\ UNCHANGED app

\* The barrier of the subgraph after one of its nodes has returned, next
\* being where its edges lead: the invocation is over at END, and the
\* engine raises when the limit is reached with a node still to run.
SubgraphBarrier(next) ==
    /\ sub_steps' = sub_steps + 1
    /\ IF next # "END" /\ sub_steps + 1 >= subgraph_recursion_limit
       THEN wrapper_raises
       ELSE sub_pos' = next /\ OuterUnchanged

\* The head of an executor wrapper: without a step id, a plan or the step
\* it goes back to WorkerTeamNode; otherwise it invokes the subgraph on a
\* fresh state.
subgraph_invoke ==
    \E t \in active :
        /\ run_status = "running"
        /\ SubgraphOf(t.node) # "none"
        /\ sub_task = NoTask
        /\ IF t.step_id = NoStep \/ plan.is_none
              \/ ~ \E k \in 1..Len(plan.steps) : plan.steps[k].id = t.step_id
           THEN Executor(t, {NoResult}) /\ UNCHANGED sub
           ELSE /\ sub_task' = t
                /\ sub_messages' = <<>>
                /\ sub_result' = NoResult
                /\ sub_pos' = "model"
                /\ sub_steps' = 0
                /\ sub_responses' = <<>>
                /\ tools_executed' = 0
                /\ OuterUnchanged

\* AssetAnalyzerNode, VulnDiscoveryAnalyzerNode and VulnDetailAnalyzerNode,
\* for responses with the given numbers of tool calls: the call of the
\* model raises, or its response is returned as the update of "messages",
\* with "result" when it has no tool calls.
AnalyzerNodeWith(requests) ==
    /\ run_status = "running"
    /\ sub_pos = "model"
    /\ \/ /\ wrapper_raises
          /\ UNCHANGED <<sub_task, sub_messages, sub_result, sub_steps,
                         sub_responses, tools_executed>>
       \/ \E tool_calls \in requests \cup {0} : \E r \in SubgraphResults(sub_task.node) :
             /\ sub_messages' = sub_messages_reducer(sub_task.node, sub_messages,
                                                     <<AIMessage(tool_calls)>>)
             /\ sub_result' = AnalyzerResult(tool_calls, r, sub_result)
             /\ sub_responses' = Append(sub_responses, tool_calls)
             /\ SubgraphBarrier(IF tools_condition(sub_messages') = "tools"
                                THEN "tools" ELSE "END")
             /\ UNCHANGED <<sub_task, tools_executed>>

\* The prebuilt ToolNode, for tools ending in the given ways: it runs every
\* tool call of the last message and returns one message for each.
ToolNodeWith(statuses) ==
    /\ run_status = "running"
    /\ sub_pos = "tools"
    /\ LET calls == sub_messages[Len(sub_messages)].name[2]
       IN \E out \in [1..calls -> statuses] :
             /\ sub_messages' = sub_messages_reducer(sub_task.node, sub_messages,
                                    [k \in 1..calls |-> ToolMessage(out[k])])
             /\ tools_executed' = tools_executed + calls
    /\ SubgraphBarrier("model")
    /\ UNCHANGED <<sub_task, sub_result, sub_responses>>

\* The reasoning node, with tool calls in the first MaxToolRounds responses.
AnalyzerNode ==
    AnalyzerNodeWith(IF Len(sub_responses) < MaxToolRounds THEN 1..MaxToolCalls ELSE {})

ToolNode == ToolNodeWith(ToolStatuses)

\* The tail of an executor wrapper: "result" of the final state goes under
\* the step id and the wrapper goes back to WorkerTeamNode.
subgraph_result ==
    /\ run_status = "running"
    /\ sub_pos = "END"
    /\ sub_task \in active
    /\ Executor(sub_task, {sub_result})
    /\ sub_task' = NoTask
    /\ sub_messages' = <<>>
    /\ sub_result' = NoResult
    /\ sub_pos' = "idle"
    /\ sub_steps' = 0
    /\ sub_responses' = <<>>
    /\ tools_executed' = 0

\* Plans of one step of a kind that has an executor.
LoopPlans ==
    {p \in Plans : /\ Len(p.steps) = 1
                   /\ SubgraphOf(_node_for_step_type(p.steps[1].step_type)) # "none"}

LoopInit ==
    /\ plan \in LoopPlans
    /\ step_results = <<>>
    /\ active = {Goto("WorkerTeamNode")}
    /\ updates = {}
    /\ plan_update = {}
    /\ next_active = {}
    /\ supersteps = 1
    /\ run_status = "running"
    /\ last_node = "UserFeedbackNode"
    /\ last_decision = Route("")
    /\ invocations = 0
    /\ dispatch_count = <<>>
    /\ write_count = <<>>
    /\ messages = <<>>
    /\ plan_iterations = 1
    /\ plan_review_status = "approved"
    /\ field_update = <<>>
    /\ resume_value = NoDecision
    /\ caller = "in_call"
    /\ node_state = NodeState(plan, messages, plan_iterations, step_results)
    /\ refine_noop = FALSE
    /\ planner_calls = 1
    /\ resume_entry = "UserFeedbackNode"
    /\ delivered = Decision(TRUE, "")
    /\ feedback = Decision(TRUE, "")
    /\ SubIdle
    /\ AppIdle

LoopNext ==
    \/ WorkerTeamNode
    \/ PlanRefineNode
    \/ subgraph_invoke
    \/ AnalyzerNode
    \/ ToolNode
    \/ subgraph_result
    \/ TriageNode
    \/ ReporterNode
    \/ Barrier

LoopSpec == LoopInit /\ [][LoopNext]_vars

\* The same invocations followed to the limit of the subgraph's engine:
\* every response asks for at most one tool, and the tool succeeds.
AnalyzerNodeUncut == AnalyzerNodeWith({1})

ToolNodeUncut == ToolNodeWith({"success"})

LoopCapNext ==
    \/ WorkerTeamNode
    \/ PlanRefineNode
    \/ subgraph_invoke
    \/ AnalyzerNodeUncut
    \/ ToolNodeUncut
    \/ subgraph_result
    \/ TriageNode
    \/ ReporterNode
    \/ Barrier

LoopCapSpec == LoopInit /\ [][LoopCapNext]_vars

\* ---------------------------------------------- overlapping invocations
\* The front ends start run_agent_workflow_async as a task of the event
\* loop; the call holds nothing that keeps a second call for the same
\* run_id from starting.  The calls that start while one is executing are
\* counted; what they do to the stored State is not followed.

\* Number of calls started while another one is executing.
MaxOverlapping == 1

\* What a call that starts beside the executing one leaves alone.
RunUnchanged ==
    /\ UNCHANGED <<plan, step_results, active, updates, plan_update, next_active,
                   supersteps, run_status, last_node, last_decision, invocations,
                   dispatch_count, write_count, node_state, refine_noop,
                   resume_entry, pending_plan, checkpoint, builder>>
    /\ UNCHANGED front
    /\ UNCHANGED sub

\* tui.py: "Review Plan" opens the approval screen as long as a plan is
\* pending, and handle_plan_feedback starts a worker for
\* _resume_with_feedback whether or not one is running.  (With the run
\* suspended this is VulnGraphApp_resume_with_feedback; the pending plan
\* is not cleared before the resumed call has returned.)
handle_plan_feedback ==
    /\ pending_plan
    /\ caller = "in_call"
    /\ overlapping < MaxOverlapping
    /\ overlapping' = overlapping + 1
    /\ RunUnchanged

\* main.py: POST /query with the run_id of the executing run awaits
\* start_agent_workflow, which calls run_agent_workflow_async.
query_handler ==
    /\ caller = "in_call"
    /\ overlapping < MaxOverlapping
    /\ overlapping' = overlapping + 1
    /\ RunUnchanged

\* A call started beside the executing one returns or raises.
run_agent_workflow_async_ends ==
    /\ overlapping > 0
    /\ overlapping' = overlapping - 1
    /\ RunUnchanged

AppNext ==
    \/ RunNext
    \/ handle_plan_feedback
    \/ query_handler
    \/ run_agent_workflow_async_ends

AppSpec == RunInit /\ [][AppNext]_vars

\* ------------------------------------------- planner ids of any spelling
\* The planner's ids are free strings.  Plans of a discovery step and a
\* second step whose id is the planner's usual one or is spelled like an
\* id PlanRefineNode builds for the discovery step.
RefineIds == {PlanId(2)} \cup {DetailId(PlanId(1), i) : i \in 0..(MaxCves - 1)}

RefinePlans ==
    {Plan(<<d, [o EXCEPT !.id = id]>>) :
        d \in {s \in StepChoices(1) : s.step_type = "vuln_discovery" /\ s.depends_on = {}},
        o \in StepChoices(2), id \in RefineIds}

RefineInit ==
    /\ plan \in RefinePlans
    /\ step_results = <<>>
    /\ active = {Goto("WorkerTeamNode")}
    /\ updates = {}
    /\ plan_update = {}
    /\ next_active = {}
    /\ supersteps = 1
    /\ run_status = "running"
    /\ last_node = "UserFeedbackNode"
    /\ last_decision = Route("")
    /\ invocations = 0
    /\ dispatch_count = <<>>
    /\ write_count = <<>>
    /\ messages = <<>>
    /\ plan_iterations = 1
    /\ plan_review_status = "approved"
    /\ field_update = <<>>
    /\ resume_value = NoDecision
    /\ caller = "in_call"
    /\ node_state = NodeState(plan, messages, plan_iterations, step_results)
    /\ refine_noop = FALSE
    /\ planner_calls = 1
    /\ resume_entry = "UserFeedbackNode"
    /\ delivered = Decision(TRUE, "")
    /\ feedback = Decision(TRUE, "")
    /\ SubIdle
    /\ AppIdle

RefineSpec == RefineInit /\ [][Next]_vars

\* ------------------------------------------------------- the graph built
\* The nodes _build_base_graph registers with add_node.
_build_base_graph ==
    {"CoordinatorNode", "PlannerNode", "UserFeedbackNode", "WorkerTeamNode",
     "AssetsAnalzerNode", "AssetToolNode", "VulnAnalyzerNode", "VulnToolNode",
     "ReporterNode"}

\* The keys of the path maps of its conditional edges.
path_map == {"PlannerNode", "VulnAnalyzerNode", "AssetsAnalzerNode", "tools", "__end__"}

\* END, the terminal marker.
END == "__end__"

\* ---------------------------------------------------------------- get_graph
\* builder.py, get_graph: a coroutine without a lock.  It runs from one
\* await to the next without interruption; at "await
\* _saver_ctx.__aenter__()" and at "await _checkpointer.setup()" other
\* coroutines of the event loop run.

\* g.compile(checkpointer=...): a new compiled graph bound to the saver.
compile(n, checkpointer) == [id |-> n, checkpointer |-> checkpointer]

\* "g = _build_base_graph(); compiled_graph = g.compile(checkpointer=
\* _checkpointer); return compiled_graph", with the saver the module holds
\* when the statements run.
get_graph_returns(c, checkpointer) ==
    /\ graphs_compiled' = graphs_compiled + 1
    /\ compiled_graph' = compile(graphs_compiled + 1, checkpointer)
    /\ get_graph_got' = [get_graph_got EXCEPT ![c] = compiled_graph']
    /\ get_graph_pc' = [get_graph_pc EXCEPT ![c] = "returned"]

BuilderUnchanged ==
    /\ UNCHANGED <<plan, step_results, active, updates, plan_update, next_active,
                   supersteps, run_status, last_node, last_decision, invocations,
                   dispatch_count, write_count, node_state, refine_noop,
                   resume_entry, pending_plan, overlapping, checkpoint>>
    /\ UNCHANGED front
    /\ UNCHANGED sub

\* The call up to its first await or its return.
get_graph(c) ==
    /\ get_graph_pc[c] = "idle"
    /\ IF compiled_graph # NoGraph
       THEN /\ get_graph_got' = [get_graph_got EXCEPT ![c] = compiled_graph]
            /\ get_graph_pc' = [get_graph_pc EXCEPT ![c] = "returned"]
            /\ UNCHANGED <<compiled_graph, _checkpointer, _saver_ctx, _setup_done,
                           get_graph_ctx, savers_opened, graphs_compiled>>
       ELSE IF _checkpointer = NoSaver
            THEN /\ savers_opened' = savers_opened + 1
                 /\ _saver_ctx' = savers_opened + 1
                 /\ get_graph_ctx' = [get_graph_ctx EXCEPT ![c] = _saver_ctx']
                 /\ get_graph_pc' = [get_graph_pc EXCEPT ![c] = "__aenter__"]
                 /\ UNCHANGED <<compiled_graph, _checkpointer, _setup_done,
                                get_graph_got, graphs_compiled>>
            ELSE /\ get_graph_returns(c, _checkpointer)
                 /\ UNCHANGED <<_checkpointer, _saver_ctx, _setup_done,
                                get_graph_ctx, savers_opened>>
    /\ BuilderUnchanged

\* __aenter__() has returned the saver of the context it was called on.
get_graph_entered(c) ==
    /\ get_graph_pc[c] = "__aenter__"
    /\ _checkpointer' = get_graph_ctx[c]
    /\ IF ~_setup_done
       THEN /\ get_graph_pc' = [get_graph_pc EXCEPT ![c] = "setup"]
            /\ UNCHANGED <<compiled_graph, get_graph_got, graphs_compiled>>
       ELSE get_graph_returns(c, _checkpointer')
    /\ UNCHANGED <<_saver_ctx, _setup_done, get_graph_ctx, savers_opened>>
    /\ BuilderUnchanged

\* setup() has returned.
get_graph_setup_done(c) ==
    /\ get_graph_pc[c] = "setup"
    /\ _setup_done' = TRUE
    /\ get_graph_returns(c, _checkpointer)
    /\ UNCHANGED <<_checkpointer, _saver_ctx, get_graph_ctx, savers_opened>>
    /\ BuilderUnchanged

\* The get_graph calls of the callers of one process, before its run.
GraphNext ==
    \/ \E c \in Callers : get_graph(c)
    \/ \E c \in Callers : get_graph_entered(c)
    \/ \E c \in Callers : get_graph_setup_done(c)

GraphSpec == RunInit /\ [][GraphNext]_vars

\* ------------------------------------------------------------ vocabulary
ParallelKinds == {"asset_analysis", "vuln_detail"}
\* The kinds of STEP_CONFIG whose node is an executor that returns to
\* WorkerTeamNode.
ExecutorKinds == {"asset_analysis", "vuln_detail", "vuln_discovery"}

Steps == {plan.steps[k] : k \in 1..Len(plan.steps)}
Done == DOMAIN step_results
Pending == {s \in Steps : s.id \notin Done}
DepsMet(s) == s.depends_on \subseteq Done
Runnable == {s \in Pending : DepsMet(s)}

\* WorkerTeamNode has returned and the barrier of its superstep is the next
\* thing to happen, or has just happened: plan and step_results are the
\* ones it was given.
Scheduled == last_node = "WorkerTeamNode"
Sent == {last_decision.jobs[k].step_id : k \in 1..Len(last_decision.jobs)}
SentSteps == {s \in Steps : s.id \in Sent}
Dispatched == Scheduled /\ last_decision.jobs # <<>>

\* Steps of the current superstep.
ActiveSteps == {s \in Steps : \E t \in active : t.step_id = s.id}

\* A discovery step with a result that no step depends on.
LeafDiscovery(s) ==
    /\ s.step_type = "vuln_discovery"
    /\ s.id \in Done
    /\ \A o \in Steps : s.id \notin o.depends_on

\* ----------------------------------------------------------------- claims
\* C1: WorkerTeamNode never emits a Send for a step id it has dispatched
\* before or that already has a result, and each step id is written into
\* step_results at most once.
C1_NoRepeatedDispatch ==
    /\ \A i \in DOMAIN dispatch_count : dispatch_count[i] <= 1
    /\ \A i \in DOMAIN write_count : write_count[i] <= 1
    /\ Dispatched => Sent \cap Done = {}

\* C2: a step is dispatched only when every id of its depends_on is a key
\* of step_results, and no step with an unmet dependency is active.
C2_DepsMetAtDispatch ==
    /\ Dispatched => \A s \in SentSteps : s.depends_on \subseteq Done
    /\ \A s \in ActiveSteps : s.depends_on \subseteq Done

C2_Witness ==
    /\ Dispatched
    /\ \E s \in SentSteps : s.depends_on # {}
    /\ \E p \in Pending : ~DepsMet(p)

\* C3 as claimed: when a step of stage s is dispatched, no step of a lower
\* stage is still pending.
C3_StageBarrier ==
    Dispatched => \A s \in SentSteps : \A p \in Pending : p.stage >= s.stage

\* C3 as amended: when a step of stage s is dispatched, no runnable step (a
\* pending step whose dependencies all have results) has a lower stage.
C3_RunnableStageBarrier ==
    Dispatched => \A s \in SentSteps : \A p \in Runnable : p.stage >= s.stage

C3_Witness ==
    /\ Dispatched
    /\ \E s \in SentSteps : s.stage > 0 /\ \E p \in Steps : p.stage < s.stage /\ p.id \in Done
    /\ \E p \in Runnable : p.id \notin Sent

\* C4: every runnable step of the lowest runnable stage whose kind is
\* parallel is in the fan-out WorkerTeamNode returns, with exactly one Send,
\* and all of them are active in the superstep that follows.
C4_ParallelFanOut ==
    Dispatched =>
        \A s \in Runnable :
            (s.step_type \in ParallelKinds /\ \A r \in Runnable : s.stage <= r.stage) =>
                /\ SendCount(last_decision.jobs, s.id) = 1
                /\ Cardinality({t \in active \cup next_active : t.step_id = s.id}) = 1
                /\ \A t \in active \cup next_active :
                      t.step_id = s.id => t.node = _node_for_step_type(s.step_type)

C4_Witness ==
    /\ Dispatched
    /\ Cardinality({s \in SentSteps : s.step_type \in ParallelKinds}) >= 2
    /\ \E p \in Runnable : p.id \notin Sent

\* C5: one WorkerTeamNode invocation dispatches at most one step of a serial
\* kind and dispatches it alone, and no superstep has two steps active when
\* one of them is of a serial kind.
C5_SerialAlone ==
    /\ Dispatched =>
          \A s \in SentSteps : s.step_type \notin ParallelKinds => Len(last_decision.jobs) = 1
    /\ \A t \in active : \A s \in Steps :
          (t.step_id = s.id /\ s.step_type \notin ParallelKinds) => active = {t}

C5_Witness ==
    /\ Dispatched
    /\ \E s \in SentSteps : s.step_type = "vuln_discovery"
    /\ \E p \in Runnable :
          /\ p.id \notin Sent
          /\ p.step_type \notin ParallelKinds
          /\ \A s \in SentSteps : p.stage = s.stage

\* The plan of the scenario: A and B of a parallel kind at stage 0 without
\* dependencies, C of a serial kind of STEP_CONFIG at stage 1 depending on
\* both; steps after the third are the ones PlanRefineNode added.
ScenarioABC ==
    /\ Len(plan.steps) >= 3
    /\ \A k \in 1..2 :
          /\ plan.steps[k].step_type \in ParallelKinds
          /\ plan.steps[k].stage = 0
          /\ plan.steps[k].depends_on = {}
    /\ plan.steps[3].step_type \in {"vuln_discovery", "reporting"}
    /\ plan.steps[3].stage = 1
    /\ plan.steps[3].depends_on = {PlanId(1), PlanId(2)}
    /\ \A k \in 4..Len(plan.steps) : Len(plan.steps[k].id) = 3

\* C6: for the plan A, B, C the first invocation dispatches {A, B}, the
\* second dispatches {C} alone, the third routes to TriageNode, and the run
\* does not end before that.
C6_ScenarioABC ==
    ScenarioABC =>
        /\ (Scheduled /\ invocations = 1) =>
              /\ Sent = {PlanId(1), PlanId(2)}
              /\ Len(last_decision.jobs) = 2
        /\ (Scheduled /\ invocations = 2) =>
              /\ Sent = {PlanId(3)}
              /\ Len(last_decision.jobs) = 1
        /\ (Scheduled /\ invocations = 3) => last_decision = Route("TriageNode")
        /\ run_status = "done" => invocations >= 3

\* A plan with step kinds that have an executor, whose dependencies are steps of the plan
\* and can all be met in some order.
RECURSIVE Completable(_, _)
Completable(steps, done) ==
    LET ready == {s \in steps : s.id \notin done /\ s.depends_on \subseteq done}
    IN IF {s \in steps : s.id \notin done} = {} THEN TRUE
       ELSE IF ready = {} THEN FALSE
       ELSE Completable(steps, done \cup {s.id : s \in ready})

WellFormed ==
    /\ \A s \in Steps : s.step_type \in ExecutorKinds
    /\ Completable(Steps, {})

\* C7: a run on a well-formed plan stops only by finishing, and it finishes
\* through TriageNode and then ReporterNode; the superstep cap does not end
\* it.
C7_ReachesAggregator ==
    (WellFormed /\ run_status # "running") =>
        /\ run_status = "done"
        /\ last_decision = Route("TriageNode")
        /\ last_node = "ReporterNode"

\* C8: when a discovery step has a result and no step depends on it,
\* WorkerTeamNode routes to PlanRefineNode and dispatches nothing.
C8_RefineFirst ==
    (Scheduled /\ \E s \in Steps : LeafDiscovery(s)) =>
        /\ last_decision = Route("PlanRefineNode")
        /\ \A t \in active \cup next_active : t = Goto("PlanRefineNode")

C8_Witness ==
    /\ Scheduled
    /\ \E s \in Steps : LeafDiscovery(s)
    /\ Runnable # {}
    /\ last_decision = Route("PlanRefineNode")

\* PlanRefineNode has returned and its superstep is not over: plan and
\* step_results are the ones it was given.
JustRefined == last_node = "PlanRefineNode" /\ active = {} /\ next_active # {}
Added ==
    IF plan_update = {} THEN {}
    ELSE LET p == CHOOSE q \in plan_update : TRUE
         IN {p.steps[k] : k \in (Len(plan.steps) + 1)..Len(p.steps)}
\* The identifiers the results of the discovery steps list.
Listed(d) ==
    IF d.step_type = "vuln_discovery" /\ d.id \in Done /\ step_results[d.id].type = "vuln_discovery"
    THEN {step_results[d.id].cve_ids[k] : k \in 1..Len(step_results[d.id].cve_ids)}
    ELSE {}
Untargeted == UNION {Listed(d) : d \in Steps} \ {s.target : s \in Steps}

\* C9: PlanRefineNode adds exactly one vuln_detail step per listed
\* identifier that no step targets yet; the new step is staged one after a
\* discovery step that lists the identifier and depends on that step only.
C9_OneDetailPerTarget ==
    JustRefined =>
        /\ \A c \in Untargeted : Cardinality({n \in Added : n.target = c}) = 1
        /\ \A n \in Added :
              /\ n.target \in Untargeted
              /\ n.step_type = "vuln_detail"
              /\ \E d \in Steps :
                    /\ n.target \in Listed(d)
                    /\ n.stage = d.stage + 1
                    /\ n.depends_on = {d.id}
        /\ (plan_update # {}) =>
              (CHOOSE q \in plan_update : TRUE).steps
                  = plan.steps \o SubSeq((CHOOSE q \in plan_update : TRUE).steps,
                                         Len(plan.steps) + 1,
                                         Len((CHOOSE q \in plan_update : TRUE).steps))
        /\ Cardinality(Added) = Cardinality(Untargeted)

\* D at stage 0 lists two identifiers: two steps at stage 1, one for each.
C9_Witness ==
    /\ JustRefined
    /\ \E d \in Steps :
          /\ d.stage = 0
          /\ Listed(d) = CveIds
          /\ {n.target : n \in Added} = CveIds
          /\ \A n \in Added : n.stage = 1 /\ n.depends_on = {d.id}
    /\ Cardinality(Added) = 2

\* C10: a second PlanRefineNode pass over the plan of a first pass and the
\* same step_results adds no step.
C10_Idempotent ==
    last_node = "PlanRefineNode" =>
        /\ NewSteps(Refined(plan, step_results), step_results) = <<>>
        /\ Refined(Refined(plan, step_results), step_results) = Refined(plan, step_results)

C10_Witness ==
    /\ JustRefined
    /\ Added # {}
    /\ NewSteps(plan, step_results) # <<>>

\* C11: a PlanRefineNode call routes to WorkerTeamNode only, and the
\* WorkerTeamNode invocation that follows a call that added no step does
\* not route to PlanRefineNode again.
C11_NoRefinePingPong ==
    /\ (last_node = "PlanRefineNode" /\ run_status = "running") =>
          active \cup next_active = {Goto("WorkerTeamNode")}
    /\ (Scheduled /\ refine_noop) => last_decision # Route("PlanRefineNode")

\* C17: one invocation of the graph runs at most recursion_limit
\* supersteps, and the run that is stopped at the limit ends with an error
\* the caller of run_agent_workflow_async receives, not as a finished run.
C17_RecursionCap ==
    /\ supersteps <= RecursionLimit
    /\ run_status = "running" => supersteps < RecursionLimit
    /\ run_status = "recursion_exceeded" => caller = "raised"
    /\ caller = "returned" => run_status \in {"done", "suspended"}
    /\ run_status = "done" => active = {} /\ next_active = {}

C17_Witness ==
    /\ run_status = "recursion_exceeded"
    /\ supersteps = RecursionLimit
    /\ caller = "raised"

ExecutorNodes == {"AssetsAnalzerNode", "VulnDiscoveryNode", "VulnDetailNode"}
\* The steps WorkerTeamNode has sent to an executor node.
SentToExecutor ==
    {s \in Steps : s.id \in DOMAIN dispatch_count
                   /\ _node_for_step_type(s.step_type) \in ExecutorNodes}

\* C18: a step sent to an executor is running, or its result is in the
\* update the executor returned, or it is in step_results; an executor
\* writes under the id of a step it was sent and of no other; at the next
\* WorkerTeamNode invocation the step is not pending.
C18_ResultWritten ==
    /\ \A s \in SentToExecutor :
          \/ s.id \in Done
          \/ \E t \in active \cup next_active : t.step_id = s.id
          \/ \E u \in updates : u[1] = s.id
    /\ \A u \in updates :
          /\ \E s \in SentToExecutor : s.id = u[1]
          /\ u[1] \notin Done
    /\ Scheduled => \A s \in SentToExecutor : s.id \notin Sent => s.id \notin {p.id : p \in Pending}

C18_Witness ==
    /\ Scheduled
    /\ invocations >= 2
    /\ \E s \in SentToExecutor : s.id \in Done /\ s.id \notin Sent
    /\ Dispatched

\* C20: the State object a node was given is, after the call, equal to the
\* State of the run: plan, messages, plan_iterations and step_results
\* change at the barrier only.
C20_NodesDoNotMutate ==
    node_state = NodeState(plan, messages, plan_iterations, step_results)

\* C12: from a suspended run the only step is the supply of a resume value,
\* which runs no node and leaves the State as it is; the call that drove
\* the run has returned.
C12_SuspendedUntilResume ==
    [][run_status = "suspended" =>
          /\ caller = "returned"
          /\ resume_value' # NoDecision
          /\ active' = active
          /\ UNCHANGED <<plan, step_results, messages, plan_iterations,
                         plan_review_status, last_node, planner_calls, invocations>>]_vars

\* C13: the first node to run after a front end delivered a decision is
\* UserFeedbackNode, and the value its interrupt() returns is that decision.
C13_ResumeAtSuspendedNode ==
    /\ resume_entry \in {"none", "awaiting", "UserFeedbackNode"}
    /\ (resume_entry = "UserFeedbackNode" /\ delivered # NoDecision) => feedback = delivered

\* UserFeedbackNode returns for the decision interrupt() gave it.
FeedbackStep ==
    /\ resume_value # NoDecision
    /\ resume_value' = NoDecision
    /\ last_node' = "UserFeedbackNode"
\* The barrier of the superstep in which UserFeedbackNode returned for a
\* decision.
FeedbackBarrier ==
    /\ last_node = "UserFeedbackNode"
    /\ feedback # NoDecision
    /\ "plan_review_status" \in DOMAIN field_update
    /\ supersteps' = supersteps + 1

\* C14: for an approving decision UserFeedbackNode returns
\* plan_review_status = approved and goto WorkerTeamNode and no update of
\* plan or step_results; after the barrier WorkerTeamNode is active, the
\* status is approved and plan and step_results are as before.
C14_ApprovedRoutesToWorker ==
    [][/\ (FeedbackStep /\ resume_value.approved) =>
             /\ next_active' = {Goto("WorkerTeamNode")}
             /\ field_update'["plan_review_status"] = "approved"
             /\ DOMAIN field_update' = {"plan_review_status"}
             /\ plan_update' = {} /\ updates' = {}
             /\ plan' = plan /\ step_results' = step_results
       /\ (FeedbackBarrier /\ feedback.approved) =>
             /\ active' = {Goto("WorkerTeamNode")}
             /\ plan_review_status' = "approved"
             /\ plan' = plan /\ step_results' = step_results]_vars

C14_Witness ==
    /\ last_node = "UserFeedbackNode"
    /\ feedback.approved
    /\ active = {Goto("WorkerTeamNode")}
    /\ plan_review_status = "approved"
    /\ plan.steps # <<>>

\* C15: for a rejecting decision UserFeedbackNode returns
\* plan_review_status = rejected, goto PlannerNode and the message list
\* with the comment appended; after the barrier the comment is the last
\* message and PlannerNode is active; the planning model is invoked at most
\* max_plan_iterations times however many decisions are rejections.
C15_RejectedRoutesToPlanner ==
    [][/\ (FeedbackStep /\ ~resume_value.approved) =>
             /\ next_active' = {Goto("PlannerNode")}
             /\ field_update'["plan_review_status"] = "rejected"
             /\ resume_value.comment # "" =>
                   field_update'["messages"] = Append(messages, Message(0, "UserFeedback"))
             /\ resume_value.comment = "" => field_update'["messages"] = messages
       /\ (FeedbackBarrier /\ ~feedback.approved) =>
             /\ active' = {Goto("PlannerNode")}
             /\ plan_review_status' = "rejected"
             /\ feedback.comment # "" =>
                   messages' = Append(messages, Message(Len(messages) + 1, "UserFeedback"))
             /\ feedback.comment = "" => messages' = messages
       /\ planner_calls' <= max_plan_iterations]_vars

\* Every planning iteration was followed by a rejection with a comment,
\* and PlannerNode, entered again, goes to ReporterNode.
C15_Witness ==
    /\ last_node = "PlannerNode"
    /\ plan_review_status = "rejected"
    /\ plan_iterations = max_plan_iterations
    /\ planner_calls = max_plan_iterations
    /\ next_active = {Goto("ReporterNode")}
    /\ Cardinality({k \in 1..Len(messages) : messages[k].name = "UserFeedback"})
          = max_plan_iterations

\* PlannerNode returns.
PlannerStep == Goto("PlannerNode") \in active /\ Goto("PlannerNode") \notin active'

\* C16: plan_iterations never decreases and never exceeds
\* max_plan_iterations, the planning model is invoked at most
\* max_plan_iterations times, and PlannerNode entered with plan_iterations
\* at the limit goes to ReporterNode without invoking it.
C16_PlannerIterationBound ==
    [][/\ plan_iterations' >= plan_iterations
       /\ plan_iterations' <= max_plan_iterations
       /\ planner_calls' <= max_plan_iterations
       /\ (PlannerStep /\ plan_iterations >= max_plan_iterations) =>
             /\ planner_calls' = planner_calls
             /\ next_active' = {Goto("ReporterNode")}
             /\ plan_update' = {}
       /\ (PlannerStep /\ planner_calls' # planner_calls) =>
             /\ plan_iterations < max_plan_iterations
             /\ field_update'["plan_iterations"] = plan_iterations + 1]_vars

\* Three iterations without a plan that ends the planning, then the fourth
\* entry goes to ReporterNode.
C16_Witness ==
    /\ last_node = "PlannerNode"
    /\ delivered = NoDecision
    /\ plan_iterations = max_plan_iterations
    /\ planner_calls = max_plan_iterations
    /\ next_active = {Goto("ReporterNode")}
    /\ plan_update = {}

\* The maps the reducer can end with when it is applied to the updates
\* ups one after the other, in any order.
RECURSIVE Folds(_, _)
Folds(results, ups) ==
    IF ups = {} THEN {results}
    ELSE UNION {Folds(or_(results, Entry(u)), ups \ {u}) : u \in ups}

\* The updates a step merges into step_results.
Applied == updates \ updates'

\* C19: a merge removes no key of step_results and keeps the entries no
\* update writes; every update with a key of its own is in the merged map,
\* in whatever order the updates are merged; a key written more than once
\* has one of the written values, the one merged last, never the old one.
C19_MergeKeepsAll ==
    [][/\ DOMAIN step_results \subseteq DOMAIN step_results'
       /\ \A i \in DOMAIN step_results :
             (\A u \in Applied : u[1] # i) => step_results'[i] = step_results[i]
       /\ \A u \in Applied :
             /\ u[1] \in DOMAIN step_results'
             /\ \E v \in Applied : v[1] = u[1] /\ step_results'[u[1]] = v[2]
             /\ (\A v \in Applied : v[1] = u[1] => v = u) => step_results'[u[1]] = u[2]
       /\ step_results' \in Folds(step_results, Applied)
       /\ (\A u, v \in Applied : u[1] = v[1] => u = v) =>
             Cardinality(Folds(step_results, Applied)) = 1]_vars

\* Two updates with keys of their own were merged into a map that had
\* another entry.
C19_Witness ==
    /\ run_status = "done"
    /\ Cardinality({i \in DOMAIN write_count : write_count[i] = 1}) >= 2
    /\ \E i \in DOMAIN step_results : i \notin DOMAIN write_count
    /\ \A i \in DOMAIN write_count : i \in DOMAIN step_results

\* C21: an executor node that returns for step id s adds to the updates of
\* the superstep at most one entry, under s, and returns no update of the
\* plan, messages, plan_iterations or plan_review_status; WorkerTeamNode
\* returns no update at all; no node step changes the State; with no plan
\* update in the superstep the barrier leaves the plan as it is, and it
\* changes step_results only under the ids the updates carry.
C21_ExecutorFrame ==
    [][/\ \A t \in active :
             (t.node \in ExecutorNodes /\ t \notin active') =>
                 /\ updates \subseteq updates'
                 /\ \A u \in updates' \ updates : u[1] = t.step_id
                 /\ Cardinality(updates' \ updates) <= 1
                 /\ plan_update' = plan_update
                 /\ field_update' = field_update
       /\ invocations' # invocations =>
             /\ updates' = updates
             /\ plan_update' = plan_update
             /\ field_update' = field_update
       /\ active' # active /\ active # {} =>
             /\ plan' = plan
             /\ messages' = messages
             /\ plan_iterations' = plan_iterations
             /\ step_results' = step_results
       /\ (supersteps' = supersteps + 1 /\ plan_update = {}) => plan' = plan
       /\ supersteps' = supersteps + 1 =>
             \A i \in DOMAIN step_results :
                 (\A u \in updates : u[1] # i) =>
                     i \in DOMAIN step_results' /\ step_results'[i] = step_results[i]]_vars

\* Two executors of one fan-out have returned, each with an entry under
\* its own step id, and the plan has a step that is still pending.
C21_Witness ==
    /\ last_node \in ExecutorNodes
    /\ active = {}
    /\ Cardinality({u[1] : u \in updates}) >= 2
    /\ plan_update = {}
    /\ field_update = <<>>
    /\ \E s \in Pending : \A u \in updates : u[1] # s.id
    /\ Done # {}

\* C22: when WorkerTeamNode is given a plan with pending steps none of
\* which has all its dependencies in step_results, it returns goto
\* TriageNode and no Send.
C22_DeadlockRoutesToTriage ==
    (Scheduled /\ Pending # {} /\ Runnable = {}) =>
        /\ last_decision = Route("TriageNode")
        /\ active \cup next_active = {Goto("TriageNode")}

\* A step whose kind _node_for_step_type does not know.
UnknownKind(s) == _node_for_step_type(s.step_type) = "WorkerTeamNode"

\* C23: a step of an unknown kind gets at most one Send over the run, the
\* superstep cap is not what ends a run in which WorkerTeamNode sends such
\* a step, and a run that has finished has no pending step of an unknown
\* kind whose dependencies are met unless it went through TriageNode.
C23_UnknownKindFailsSafe ==
    /\ \A s \in Steps :
          (UnknownKind(s) /\ s.id \in DOMAIN dispatch_count) => dispatch_count[s.id] <= 1
    /\ run_status = "recursion_exceeded" => ~ \E s \in SentSteps : UnknownKind(s)
    /\ (run_status = "done" /\ \E s \in Runnable : UnknownKind(s)) =>
          last_decision = Route("TriageNode")

\* C24: when WorkerTeamNode is given no plan, or a plan without steps, it
\* returns goto TriageNode, and neither PlannerNode nor WorkerTeamNode
\* runs after it.
C24_NoPlanRoutesToTriage ==
    (Scheduled /\ (plan.is_none \/ plan.steps = <<>>)) =>
        /\ last_decision = Route("TriageNode")
        /\ \A t \in active \cup next_active : t.node \notin {"PlannerNode", "WorkerTeamNode"}

\* PlannerNode returns for an answer that is no Plan.
UnparsedStep ==
    /\ PlannerStep
    /\ planner_calls' # planner_calls
    /\ plan_update' = {NonePlan}

\* C26: for an answer that cannot be parsed into a Plan PlannerNode does
\* not fail the run: it returns plan_iterations + 1 and goto PlannerNode;
\* PlannerNode entered with plan_iterations at max_plan_iterations
\* returns goto ReporterNode without invoking the planning model, so the
\* model is invoked at most max_plan_iterations times.
C26_UnparsablePlanRetries ==
    [][/\ UnparsedStep =>
             /\ run_status' = "running"
             /\ caller' = "in_call"
             /\ field_update'["plan_iterations"] = plan_iterations + 1
             /\ next_active' = {Goto("PlannerNode")}
       /\ (PlannerStep /\ plan.is_none /\ plan_iterations >= max_plan_iterations) =>
             /\ next_active' = {Goto("ReporterNode")}
             /\ planner_calls' = planner_calls
             /\ run_status' = "running"
       /\ plan.is_none => planner_calls' <= max_plan_iterations]_vars

\* No answer could be parsed: after max_plan_iterations iterations the
\* run has no plan and PlannerNode, entered again, goes to ReporterNode.
C26_Witness ==
    /\ last_node = "PlannerNode"
    /\ plan.is_none
    /\ plan_iterations = max_plan_iterations
    /\ planner_calls = max_plan_iterations
    /\ next_active = {Goto("ReporterNode")}
    /\ run_status = "running"
    /\ invocations = 0

\* C25: a failure inside an executor never crashes the superstep.  Once the
\* reasoning model of an invocation has raised, or its tool loop has
\* failed, the run has not failed and the call that drives it has not
\* raised: the executor's step has an entry with an error marker among the
\* updates of the superstep or in step_results, and the scheduler is
\* active or about to be.
C25_ExecutorFailureAbsorbed ==
    sub_pos = "raised" =>
        /\ run_status # "failed"
        /\ caller # "raised"
        /\ \/ \E u \in updates : u[1] = sub_task.step_id /\ u[2].type = "error"
           \/ /\ sub_task.step_id \in DOMAIN step_results
              /\ step_results[sub_task.step_id].type = "error"
        /\ \E t \in active \cup next_active : t.node = "WorkerTeamNode"

\* A step in which the reasoning model has answered, and a step in which
\* the ToolNode has run.
ResponseStep == Len(sub_responses') = Len(sub_responses) + 1
ToolsStep == sub_pos = "tools" /\ sub_pos' # "tools"
LastRequests(responses) == responses[Len(responses)]

\* C27: the tool loop of an executor ends exactly at the first reasoning
\* response with zero tool requests, and the result is set from that
\* response.  A response with tool requests leaves the result unset and
\* hands over to the ToolNode; the ToolNode executes every requested tool,
\* adds one output per request to the history, leaves the result unset and
\* hands back to the reasoning node.  The invocation is at its end only
\* when its last response has no tool request and every earlier one had
\* some, and the result is set only at the end.
C27_LoopEndsAtFirstFinal ==
    [][ /\ (ResponseStep /\ LastRequests(sub_responses') > 0) =>
              /\ sub_result' = NoResult
              /\ sub_pos' = "tools"
              /\ tools_executed' = tools_executed
        /\ (ResponseStep /\ LastRequests(sub_responses') = 0) =>
              /\ sub_result' \in SubgraphResults(sub_task.node)
              /\ sub_result' # NoResult
              /\ sub_pos' = "END"
        /\ ToolsStep =>
              /\ tools_executed' = tools_executed + LastRequests(sub_responses)
              /\ Len(sub_messages') >= LastRequests(sub_responses)
              /\ \A k \in 1..LastRequests(sub_responses) :
                    sub_messages'[Len(sub_messages') + 1 - k].name[1] = "tool"
              /\ sub_result' = NoResult
              /\ sub_responses' = sub_responses
              /\ sub_pos' = "model"
        /\ sub_pos' = "END" =>
              /\ LastRequests(sub_responses') = 0
              /\ \A k \in 1..(Len(sub_responses') - 1) : sub_responses'[k] > 0
        /\ sub_result' # NoResult => sub_pos' = "END"
        /\ sub_pos' = "model" => \A k \in 1..Len(sub_responses') : sub_responses'[k] > 0
      ]_vars

\* An invocation of the discovery subgraph at its end after two responses
\* with tool requests, the first with two, and a third with none.
C27_Witness ==
    /\ sub_pos = "END"
    /\ sub_task.node = "VulnDiscoveryNode"
    /\ Len(sub_responses) = 3
    /\ sub_responses[1] = 2
    /\ sub_responses[3] = 0
    /\ tools_executed = 2 + sub_responses[2]
    /\ sub_result # NoResult

\* C28: within one executor invocation the local message history only
\* grows, for all three executors: a step of the invocation leaves every
\* message of the history in its place, a reasoning response adds one
\* message at the end and the ToolNode adds one message per tool request.
C28_HistoryOnlyGrows ==
    [][ (sub_task # NoTask /\ sub_task' = sub_task) =>
            /\ Len(sub_messages') >= Len(sub_messages)
            /\ SubSeq(sub_messages', 1, Len(sub_messages)) = sub_messages
            /\ ResponseStep => Len(sub_messages') = Len(sub_messages) + 1
            /\ ToolsStep =>
                  Len(sub_messages') = Len(sub_messages) + LastRequests(sub_responses)
      ]_vars

Executions == (IF caller = "in_call" THEN 1 ELSE 0) + overlapping

\* C30: at most one engine execution drives a run at a time: no start or
\* resume begins while an earlier one for the same run is executing.
C30_OneExecutionPerRun == Executions <= 1

\* The State as of the last completed superstep.
LastState ==
    StateValues(plan, messages, plan_iterations, plan_review_status, step_results)

Produced ==
    IF "messages" \in DOMAIN field_update
    THEN {k \in 1..Len(field_update["messages"]) : field_update["messages"][k].id = 0}
    ELSE {}

\* C32: messages is append-only under merge.  In every step the list of
\* before is a prefix of the list of after; a barrier adds as many
\* messages as its nodes produced, in their order, also when a node
\* returned the whole list with its new message; no message is in the
\* list twice.
C32_MessagesAppendOnly ==
    [][ /\ Len(messages') >= Len(messages)
        /\ SubSeq(messages', 1, Len(messages)) = messages
        /\ supersteps' = supersteps + 1 =>
              /\ Len(messages') = Len(messages) + Cardinality(Produced)
              /\ \A k \in Produced :
                    \E j \in (Len(messages) + 1)..Len(messages') :
                        messages'[j].name = field_update["messages"][k].name
        /\ supersteps' # supersteps + 1 => messages' = messages
        /\ \A j, k \in 1..Len(messages') :
              messages'[j].id = messages'[k].id => j = k
      ]_vars

\* After a rejection with a comment was merged: the message of
\* CoordinatorNode, returned again by UserFeedbackNode with its own, is in
\* the list once, before the message of UserFeedbackNode.
C32_Witness ==
    /\ Len(messages) = 2
    /\ messages[1].name = "CoordinatorNode"
    /\ messages[2].name = "UserFeedback"
    /\ messages[1].id # messages[2].id
    /\ plan_review_status = "rejected"
    /\ active = {Goto("PlannerNode")}

\* C33: a suspended run is suspended at UserFeedbackNode with a plan,
\* plan_review_status = pending and a payload of type plan_approval that
\* carries this plan and the run_id; a run that has stopped otherwise does
\* not show pending, and the front end holds a pending plan after the call
\* has returned only for a suspended run.
C33_SuspendedAwaitingApproval ==
    /\ run_status = "suspended" =>
          /\ last_node = "UserFeedbackNode"
          /\ active = {Goto("UserFeedbackNode")}
          /\ ~ plan.is_none
          /\ plan_review_status = "pending"
          /\ interrupt_value(node_state).type = "plan_approval"
          /\ interrupt_value(node_state).plan = model_dump(plan)
          /\ interrupt_value(node_state).run_id \in {id \in RunIds : DOMAIN checkpoint[id] # {}}
    /\ run_status \in {"done", "failed", "recursion_exceeded"} =>
          plan_review_status # "pending"
    /\ (caller = "returned" /\ pending_plan) => run_status = "suspended"
    /\ (caller = "returned" /\ run_status = "suspended") => pending_plan

\* A run suspended for the second time, after a rejection.
C33_Witness ==
    /\ run_status = "suspended"
    /\ plan_iterations = 2
    /\ feedback # NoDecision
    /\ ~ feedback.approved
    /\ plan_review_status = "pending"
    /\ pending_plan

\* C34: when every step id of the plan is a key of step_results and no
\* completed discovery step is left without a dependent step,
\* WorkerTeamNode dispatches nothing and routes to TriageNode; and
\* TriageNode routes to ReporterNode.
C34_CompletedRoutesToTriage ==
    /\ (Scheduled /\ Pending = {} /\ ~ \E s \in Steps : LeafDiscovery(s)) =>
          /\ last_decision = Route("TriageNode")
          /\ active \cup next_active = {Goto("TriageNode")}
    /\ (last_node = "TriageNode" /\ run_status = "running") =>
          active \cup next_active = {Goto("ReporterNode")}

\* WorkerTeamNode got as far as choosing a stage: the plan has steps, no
\* finished discovery step is a candidate for refinement, and some pending
\* step is runnable.
StageSelection ==
    /\ Scheduled
    /\ plan.steps # <<>>
    /\ ~ \E s \in Steps : LeafDiscovery(s)
    /\ Runnable # {}

\* The steps WorkerTeamNode selects from.
AtStage ==
    LET at_stage == runnable_at_stage(plan.steps, step_results)
    IN {at_stage[k] : k \in 1..Len(at_stage)}

\* C35: in every WorkerTeamNode invocation that reaches stage selection,
\* each pending step without dependencies whose stage is the lowest stage
\* of all pending steps is among the runnable steps WorkerTeamNode selects
\* from, and every step it sends is one of those.
C35_NoDepsAtMinStageSelected ==
    StageSelection =>
        /\ \A s \in Pending :
              (s.depends_on = {} /\ \A o \in Pending : s.stage <= o.stage) => s \in AtStage
        /\ SentSteps \subseteq AtStage
        /\ Dispatched

\* Stage selection with a finished step, a pending step without
\* dependencies at the lowest pending stage that comes second in the plan,
\* and a pending step at a higher stage that comes first.
C35_Witness ==
    /\ StageSelection
    /\ Done # {}
    /\ \E j, k \in 1..Len(plan.steps) :
          /\ j < k
          /\ plan.steps[j] \in Runnable
          /\ plan.steps[k] \in Runnable
          /\ plan.steps[k].depends_on = {}
          /\ plan.steps[k].stage < plan.steps[j].stage
          /\ plan.steps[k] \in AtStage
          /\ plan.steps[j] \notin AtStage

\* C36: no step is dispatched before the plan is approved.  WorkerTeamNode
\* becomes a target for the first time only by UserFeedbackNode returning
\* for a resume value whose approved is true; no executor is active or a
\* target before WorkerTeamNode has run; and for a resume value without
\* "approved" UserFeedbackNode returns as for a rejection, with goto
\* PlannerNode.
C36_NoDispatchBeforeApproval ==
    [][ /\ (invocations = 0 /\ Goto("WorkerTeamNode") \in next_active' \ next_active) =>
              /\ last_node' = "UserFeedbackNode"
              /\ "approved" \in DOMAIN resume_value
              /\ resume_value.approved = TRUE
              /\ feedback' = resume_value
        /\ (invocations' = 0) =>
              \A t \in active' \cup next_active' :
                  /\ t.step_id = NoStep
                  /\ t.node = "WorkerTeamNode" => "approved" \in DOMAIN feedback' /\ feedback'.approved
        /\ (FeedbackStep /\ "approved" \notin DOMAIN resume_value) =>
              /\ next_active' = {Goto("PlannerNode")}
              /\ field_update'["plan_review_status"] = "rejected"
              /\ plan_update' = {} /\ updates' = {}
      ]_vars

\* UserFeedbackNode has returned for a resume value without "approved".
C36_Witness ==
    /\ last_node = "UserFeedbackNode"
    /\ feedback # NoDecision
    /\ "approved" \notin DOMAIN feedback
    /\ next_active = {Goto("PlannerNode")}
    /\ invocations = 0
    /\ dispatch_count = <<>>

\* C37: once WorkerTeamNode has been entered, ReporterNode is reached only
\* through TriageNode.  No decision of WorkerTeamNode taken while steps of
\* the plan are pending has ReporterNode as a target, whatever the kinds of
\* the steps; and ReporterNode is active, or about to be, only when the
\* node that ran last is TriageNode.
C37_ReporterOnlyThroughTriage ==
    /\ (Scheduled /\ Pending # {}) =>
          \A t \in Targets(last_decision) : t.node # "ReporterNode"
    /\ (invocations > 0 /\ \E t \in active \cup next_active : t.node = "ReporterNode") =>
          last_node = "TriageNode"

\* C38: every routing target a node returns, the goto of a Command or the
\* node of a Send, is a node registered by _build_base_graph, a key of a
\* path map, or the terminal marker.
C38_TargetsRegistered ==
    \A t \in active \cup next_active : t.node \in _build_base_graph \cup path_map \cup {END}

\* C39: after any sequence of PlanRefineNode passes the step ids of the
\* plan are pairwise distinct, the planner's ids being distinct: an id
\* PlanRefineNode builds is the id of no other step of the plan.
C39_StepIdsDistinct ==
    \A j, k \in 1..Len(plan.steps) : plan.steps[j].id = plan.steps[k].id => j = k

\* C40: get_graph opens the checkpointer and compiles the graph at most
\* once in a process, also when callers are in the call at once, and every
\* caller gets the same compiled graph, bound to the same checkpointer.
C40_GetGraphOnce ==
    /\ savers_opened <= 1
    /\ graphs_compiled <= 1
    /\ \A c, d \in Callers :
           (get_graph_pc[c] = "returned" /\ get_graph_pc[d] = "returned")
               => get_graph_got[c] = get_graph_got[d]

====
